---- MODULE Spec2Model ----
(***************************************************************************)
(* Chat Bridge: the provider registry and agent factory of                 *)
(* bridge_agents.py and the conversation orchestrator of backend/main.py   *)
(* (create_conversation, websocket_conversation, the transcript query).    *)
(*                                                                         *)
(* Python strings are TLA+ strings; None is the string NONE.  An operator  *)
(* that models a function which can raise returns a record whose exc       *)
(* field names the exception class ("None" when it returns normally).      *)
(* Temperatures are counted in tenths (7 is 0.7).                          *)
(***************************************************************************)
EXTENDS Integers, Sequences, FiniteSets, TLC

VARIABLES
    env,            \* os.environ restricted to the credential variables
    now,            \* the last wall-clock second datetime.now() returned
    heap,           \* every Conversation object ever constructed, by allocation order
    conversations,  \* the registry: conversation id -> index into heap
    obs,            \* one record per websocket handler (observer)
    calls,          \* history: one entry per generate_response call started
    raised,         \* history: the conversations (heap indices) an adapter call of which raised
    http,           \* history: the last create_conversation request and its HTTP status
    probe,          \* history: the last direct call of a bridge_agents function and its outcome
    genai,          \* the google.generativeai module: its configured key, and the worker
                    \* threads that have configured it and that have sent their request
    roles           \* the PersonaManager: roles.json, its in-memory persona_library, and
                    \* (history) the personas saved and whether the library was just loaded

vars == <<env, now, heap, conversations, obs, calls, raised, http, probe, genai, roles>>

NONE == "<None>"
NOEXC == "None"

(***************************************************************************)
(* Bounds of the model.                                                    *)
(***************************************************************************)
MaxConvs == 2       \* create_conversation requests accepted by the model
MaxClock == 1       \* wall-clock seconds 0..MaxClock
MaxRounds == 1      \* largest max_rounds a request carries
MaxWindow == 2      \* largest mem_rounds a request carries
NumObservers == 2   \* websocket connections
WindowRounds == 3   \* max_rounds of the requests of SpecWindow

Observers == 1..NumObservers

(***************************************************************************)
(* str.strip(), " ".join(...) and list slicing.                            *)
(***************************************************************************)
RECURSIVE LStrip(_)
LStrip(s) == IF Len(s) > 0 /\ Head(s) = " " THEN LStrip(Tail(s)) ELSE s

RECURSIVE RStrip(_)
RStrip(s) ==
    IF Len(s) > 0 /\ SubSeq(s, Len(s), Len(s)) = " "
    THEN RStrip(SubSeq(s, 1, Len(s) - 1))
    ELSE s

\* A strip of the leading spaces only.
StripLeft(s) == LStrip(s)

Strip(s) == RStrip(LStrip(s))

\* Python truthiness of an Optional[str]: None and "" are falsy.
Truthy(s) == s # NONE /\ s # ""

\* sep.join(parts)
RECURSIVE JoinWith(_, _)
JoinWith(sep, parts) ==
    IF Len(parts) = 0 THEN ""
    ELSE IF Len(parts) = 1 THEN parts[1]
    ELSE parts[1] \o sep \o JoinWith(sep, Tail(parts))

PySliceFromHead(s, start) ==
    SubSeq(s, 1, IF -start < Len(s) THEN -start ELSE Len(s))

\* s[start:] with Python's treatment of a negative or out-of-range start.
PySliceFrom(s, start) ==
    LET n == Len(s)
        shifted == IF start < 0 THEN start + n ELSE start
        clamped == IF shifted < 0 THEN 0 ELSE IF shifted > n THEN n ELSE shifted
    IN  SubSeq(s, clamped + 1, n)

(***************************************************************************)
(* bridge_agents.py: the provider registry.                                *)
(***************************************************************************)
DEFAULT_SYSTEM_PROMPT == "You are a helpful assistant."

ProviderSpec(key, needs_key, key_env, default_model) ==
    [key |-> key, needs_key |-> needs_key, key_env |-> key_env,
     default_model |-> default_model, default_system |-> DEFAULT_SYSTEM_PROMPT]

\* A registry in which autogen's entry carries the key of openai, whose
\* credential it shares.
PROVIDERS_Aliased ==
    [p \in {"openai", "anthropic", "gemini", "deepseek", "openrouter",
            "ollama", "lmstudio", "autogen"} |->
        ProviderSpec(IF p = "autogen" THEN "openai" ELSE p, FALSE, NONE, "gpt-4o-mini")]

PROVIDERS ==
    [p \in {"openai", "anthropic", "gemini", "deepseek", "openrouter",
            "ollama", "lmstudio", "autogen"} |->
        CASE p = "openai"     -> ProviderSpec("openai", TRUE, "OPENAI_API_KEY", "gpt-4o-mini")
          [] p = "anthropic"  -> ProviderSpec("anthropic", TRUE, "ANTHROPIC_API_KEY",
                                              "claude-3-5-sonnet-20241022")
          [] p = "gemini"     -> ProviderSpec("gemini", TRUE, "GOOGLE_API_KEY", "gemini-1.5-flash")
          [] p = "deepseek"   -> ProviderSpec("deepseek", TRUE, "DEEPSEEK_API_KEY", "deepseek-chat")
          [] p = "openrouter" -> ProviderSpec("openrouter", TRUE, "OPENROUTER_API_KEY",
                                              "openai/gpt-4o-mini")
          [] p = "ollama"     -> ProviderSpec("ollama", FALSE, NONE, "llama3.2:3b")
          [] p = "lmstudio"   -> ProviderSpec("lmstudio", FALSE, NONE, "local-model")
          [] p = "autogen"    -> ProviderSpec("autogen", TRUE, "OPENAI_API_KEY", "gpt-4o-mini")]

\* get_spec raises KeyError for an identifier that is not a key of PROVIDERS.
get_spec_exc(provider) == IF provider \in DOMAIN PROVIDERS THEN NOEXC ELSE "KeyError"

get_spec(provider) == PROVIDERS[provider]

\* What is recorded of a call of get_spec or resolve_model: its arguments,
\* the exception it raised and the value it returned.
Outcome(fn, provider, model, result) ==
    [fn |-> fn, provider |-> provider, model |-> model, exc |-> result.exc, val |-> result.val]

NoCall == Outcome(NONE, NONE, NONE, [exc |-> NOEXC, val |-> NONE])

\* os.getenv(name, default)
getenv(e, name, default) == IF name \in DOMAIN e THEN e[name] ELSE default

\* os.environ[name] = value
setenv(e, name, value) ==
    [k \in DOMAIN e \cup {name} |-> IF k = name THEN value ELSE e[k]]

resolve_model(provider, model) ==
    IF Truthy(model) /\ Truthy(Strip(model))
    THEN [exc |-> NOEXC, val |-> Strip(model)]
    ELSE IF get_spec_exc(provider) # NOEXC
         THEN [exc |-> get_spec_exc(provider), val |-> NONE]
         ELSE [exc |-> NOEXC, val |-> get_spec(provider).default_model]

\* A credential check that takes the configured value as it stands.
ensure_credentials_raw(e, provider) ==
    IF get_spec_exc(provider) # NOEXC
    THEN [exc |-> get_spec_exc(provider), val |-> NONE]
    ELSE LET spec == get_spec(provider) IN
         IF ~spec.needs_key THEN [exc |-> NOEXC, val |-> NONE]
         ELSE IF ~Truthy(spec.key_env) THEN [exc |-> "RuntimeError", val |-> NONE]
         ELSE LET api_key == getenv(e, spec.key_env, "") IN
              IF api_key = "" THEN [exc |-> "RuntimeError", val |-> NONE]
              ELSE [exc |-> NOEXC, val |-> api_key]

ensure_credentials(e, provider) ==
    IF get_spec_exc(provider) # NOEXC
    THEN [exc |-> get_spec_exc(provider), val |-> NONE]
    ELSE LET spec == get_spec(provider) IN
         IF ~spec.needs_key THEN [exc |-> NOEXC, val |-> NONE]
         ELSE IF ~Truthy(spec.key_env) THEN [exc |-> "RuntimeError", val |-> NONE]
         ELSE LET api_key == Strip(getenv(e, spec.key_env, "")) IN
              IF api_key = "" THEN [exc |-> "RuntimeError", val |-> NONE]
              ELSE [exc |-> NOEXC, val |-> api_key]

\* A caller looks a provider identifier up.
CallGetSpec(provider) ==
    /\ probe' = Outcome("get_spec", provider, NONE,
                        IF get_spec_exc(provider) # NOEXC
                        THEN [exc |-> get_spec_exc(provider), val |-> NONE]
                        ELSE [exc |-> NOEXC, val |-> get_spec(provider)])
    /\ UNCHANGED <<env, now, heap, conversations, obs, calls, raised, http, genai, roles>>

\* A caller resolves the model of a provider.
CallResolveModel(provider, model) ==
    /\ probe' = Outcome("resolve_model", provider, model, resolve_model(provider, model))
    /\ UNCHANGED <<env, now, heap, conversations, obs, calls, raised, http, genai, roles>>

(***************************************************************************)
(* bridge_agents.py: the agents and their factory.  The base-URL           *)
(* environment variables are unset, so every base URL is its default.      *)
(***************************************************************************)
NoAgent ==
    [kind |-> "None", name |-> NONE, model |-> NONE, temperature |-> 0,
     system_prompt |-> NONE, api_key |-> NONE, base_url |-> NONE]

Agent(kind, name, model, temperature, system_prompt, api_key, base_url) ==
    [kind |-> kind, name |-> name, model |-> model, temperature |-> temperature,
     system_prompt |-> system_prompt, api_key |-> api_key, base_url |-> base_url]

UpperCase == "ABCDEFGHIJKLMNOPQRSTUVWXYZ"
LowerCase == "abcdefghijklmnopqrstuvwxyz"

LowerChar(c) ==
    IF \E i \in 1..Len(UpperCase) : SubSeq(UpperCase, i, i) = c
    THEN LET i == CHOOSE j \in 1..Len(UpperCase) : SubSeq(UpperCase, j, j) = c
         IN  SubSeq(LowerCase, i, i)
    ELSE c

\* str.lower()
RECURSIVE Lower(_)
Lower(s) == IF Len(s) = 0 THEN "" ELSE LowerChar(Head(s)) \o Lower(Tail(s))

\* `x or ""`
OrEmpty(x) == IF Truthy(x) THEN x ELSE ""

\* A factory that reads the credential without checking it.
create_agent_unchecked(e, name, provider, model, temperature, system_prompt) ==
    LET provider_key == Lower(provider)
        model_name == resolve_model(provider_key, model).val
        cred == [exc |-> NOEXC,
                 val |-> IF get_spec(provider_key).needs_key
                         THEN Strip(getenv(e, get_spec(provider_key).key_env, ""))
                         ELSE NONE]
        raise(x) == [exc |-> x, agent |-> NoAgent]
        made(a) == [exc |-> NOEXC, agent |-> a]
    IN  IF get_spec_exc(provider_key) # NOEXC THEN raise(get_spec_exc(provider_key))
        ELSE IF provider_key = "autogen" THEN
            IF cred.exc # NOEXC THEN raise(cred.exc)
            ELSE made(Agent("AutoGen", name, model_name, temperature, system_prompt,
                            OrEmpty(cred.val), NONE))
        ELSE IF provider_key \in {"openai", "openrouter", "deepseek"} THEN
            IF cred.exc # NOEXC THEN raise(cred.exc)
            ELSE made(Agent("OpenAICompatible", name, model_name, temperature, system_prompt,
                            cred.val,
                            CASE provider_key = "openai" -> "https://api.openai.com/v1"
                              [] provider_key = "openrouter" -> "https://openrouter.ai/api/v1"
                              [] provider_key = "deepseek" -> "https://api.deepseek.com/v1"))
        ELSE IF provider_key = "ollama" THEN
            made(Agent("OpenAICompatible", name, model_name, temperature, system_prompt,
                       NONE, "http://localhost:11434/v1"))
        ELSE IF provider_key = "lmstudio" THEN
            made(Agent("OpenAICompatible", name, model_name, temperature, system_prompt,
                       NONE, "http://localhost:1234/v1"))
        ELSE IF provider_key = "anthropic" THEN
            IF cred.exc # NOEXC THEN raise(cred.exc)
            ELSE made(Agent("Anthropic", name, model_name, temperature, system_prompt,
                            OrEmpty(cred.val), NONE))
        ELSE IF provider_key = "gemini" THEN
            IF cred.exc # NOEXC THEN raise(cred.exc)
            ELSE made(Agent("Gemini", name, model_name, temperature, system_prompt,
                            OrEmpty(cred.val), NONE))
        ELSE raise("ValueError")

create_agent(e, name, provider, model, temperature, system_prompt) ==
    LET provider_key == Lower(provider)
        model_name == resolve_model(provider_key, model).val
        cred == ensure_credentials(e, provider_key)
        raise(x) == [exc |-> x, agent |-> NoAgent]
        made(a) == [exc |-> NOEXC, agent |-> a]
    IN  IF get_spec_exc(provider_key) # NOEXC THEN raise(get_spec_exc(provider_key))
        ELSE IF provider_key = "autogen" THEN
            IF cred.exc # NOEXC THEN raise(cred.exc)
            ELSE made(Agent("AutoGen", name, model_name, temperature, system_prompt,
                            OrEmpty(cred.val), NONE))
        ELSE IF provider_key \in {"openai", "openrouter", "deepseek"} THEN
            IF cred.exc # NOEXC THEN raise(cred.exc)
            ELSE made(Agent("OpenAICompatible", name, model_name, temperature, system_prompt,
                            cred.val,
                            CASE provider_key = "openai" -> "https://api.openai.com/v1"
                              [] provider_key = "openrouter" -> "https://openrouter.ai/api/v1"
                              [] provider_key = "deepseek" -> "https://api.deepseek.com/v1"))
        ELSE IF provider_key = "ollama" THEN
            made(Agent("OpenAICompatible", name, model_name, temperature, system_prompt,
                       NONE, "http://localhost:11434/v1"))
        ELSE IF provider_key = "lmstudio" THEN
            made(Agent("OpenAICompatible", name, model_name, temperature, system_prompt,
                       NONE, "http://localhost:1234/v1"))
        ELSE IF provider_key = "anthropic" THEN
            IF cred.exc # NOEXC THEN raise(cred.exc)
            ELSE made(Agent("Anthropic", name, model_name, temperature, system_prompt,
                            OrEmpty(cred.val), NONE))
        ELSE IF provider_key = "gemini" THEN
            IF cred.exc # NOEXC THEN raise(cred.exc)
            ELSE made(Agent("Gemini", name, model_name, temperature, system_prompt,
                            OrEmpty(cred.val), NONE))
        ELSE raise("ValueError")

(***************************************************************************)
(* bridge_agents.py: generate_response of the four agent classes, from the *)
(* provider's response on.  A response is whether the request succeeded    *)
(* and the sequence of its parts (the choices of a chat completion, the    *)
(* content entries of an Anthropic message, the parts of a Gemini          *)
(* candidate, the reply of an AutoGen assistant); a part has a type, a     *)
(* content and a text, each possibly None.                                 *)
(***************************************************************************)
Part(type, content, text) == [type |-> type, content |-> content, text |-> text]

Response(ok, parts) == [ok |-> ok, parts |-> parts]

Returns(text) == [exc |-> NOEXC, val |-> text]

Raises(exc) == [exc |-> exc, val |-> NONE]

\* `a or b`
Or(a, b) == IF Truthy(a) THEN a ELSE b

\* [entry.get("text", "") for entry in content_entries if entry.get("type") == "text"]
RECURSIVE TextChunks(_)
TextChunks(parts) ==
    IF Len(parts) = 0 THEN <<>>
    ELSE (IF parts[1].type = "text"
          THEN <<IF parts[1].text = NONE THEN "" ELSE parts[1].text>>
          ELSE <<>>) \o TextChunks(Tail(parts))

\* The text accessor of a Gemini response: the texts of its parts, joined;
\* nothing when there is no part.
RECURSIVE PartTexts(_)
PartTexts(parts) ==
    IF Len(parts) = 0 THEN <<>>
    ELSE <<IF parts[1].text = NONE THEN "" ELSE parts[1].text>> \o PartTexts(Tail(parts))

OpenAICompatibleAgent_generate_response(response) ==
    IF ~response.ok THEN Raises("RuntimeError")
    ELSE IF Len(response.parts) = 0 THEN Raises("RuntimeError")
    ELSE LET content == Or(response.parts[1].content, response.parts[1].text) IN
         IF ~Truthy(content) THEN Raises("RuntimeError")
         ELSE Returns(Strip(content))

AnthropicAgent_generate_response(response) ==
    IF ~response.ok THEN Raises("RuntimeError")
    ELSE IF Len(response.parts) = 0 THEN Raises("RuntimeError")
    ELSE LET combined == Strip(JoinWith("", TextChunks(response.parts))) IN
         IF ~Truthy(combined) THEN Raises("RuntimeError")
         ELSE Returns(combined)

GeminiAgent_generate_response(response) ==
    IF ~response.ok THEN Raises("Exception")
    ELSE LET text == IF Len(response.parts) = 0 THEN NONE
                     ELSE JoinWith("", PartTexts(response.parts)) IN
         IF ~Truthy(text) THEN Raises("RuntimeError")
         ELSE Returns(Strip(text))

AutoGenAgent_generate_response(response) ==
    IF ~response.ok THEN Raises("Exception")
    ELSE LET content == IF Len(response.parts) = 0 THEN NONE
                        ELSE response.parts[1].content IN
         IF ~Truthy(content) THEN Raises("RuntimeError")
         ELSE Returns(Strip(content))

\* agent.generate_response(...), dispatched on the agent's class.
generate_response(agent, response) ==
    CASE agent.kind = "OpenAICompatible" -> OpenAICompatibleAgent_generate_response(response)
      [] agent.kind = "Anthropic" -> AnthropicAgent_generate_response(response)
      [] agent.kind = "Gemini" -> GeminiAgent_generate_response(response)
      [] agent.kind = "AutoGen" -> AutoGenAgent_generate_response(response)

\* A caller checks the credential of a provider.
CallEnsureCredentials(provider) ==
    /\ probe' = Outcome("ensure_credentials", provider, NONE, ensure_credentials(env, provider))
    /\ UNCHANGED <<env, now, heap, conversations, obs, calls, raised, http, genai, roles>>

\* A caller builds an agent; the value recorded is the agent returned.
CallCreateAgent(provider, model, temperature) ==
    /\ \E made \in {create_agent(env, "A", provider, model, temperature, "Be brief")} :
          probe' = Outcome("create_agent", provider, model,
                           [exc |-> made.exc, val |-> made.agent])
    /\ UNCHANGED <<env, now, heap, conversations, obs, calls, raised, http, genai, roles>>

(***************************************************************************)
(* backend/main.py: the persona library and Conversation.initialize_agents.*)
(***************************************************************************)
PersonaConfig(name, provider, system_prompt, temperature, model) ==
    [name |-> name, provider |-> provider, system_prompt |-> system_prompt,
     temperature |-> temperature, model |-> model]

\* persona_manager.persona_library as loaded at startup.
persona_library ==
    [id \in {"helper", "cold"} |->
        CASE id = "helper" -> PersonaConfig("Helper", "anthropic", "Be helpful", 5, NONE)
          [] id = "cold"   -> PersonaConfig("Cold", "", "Be cold", 0, " m1 ")]

(***************************************************************************)
(* backend/main.py: PersonaManager and roles.json.  A JSON object is a     *)
(* record of the keys it has; null is None.  roles.file is the             *)
(* persona_library object of roles.json, roles.persona_library the         *)
(* dictionary the manager holds in memory.                                 *)
(***************************************************************************)
PersonaDetail(name, provider, system_prompt, temperature, model, guidelines, notes) ==
    [name |-> name, provider |-> provider, system_prompt |-> system_prompt,
     temperature |-> temperature, model |-> model, guidelines |-> guidelines,
     notes |-> notes]

EmptyLibrary == [k \in {} |-> NONE]

LibraryPut(lib, key, value) ==
    [k \in DOMAIN lib \cup {key} |-> IF k = key THEN value ELSE lib[k]]

LibraryDrop(lib, key) == [k \in DOMAIN lib \ {key} |-> lib[k]]

\* No roles.json, nothing loaded.
NoRoles ==
    [exists |-> FALSE, file |-> EmptyLibrary, persona_library |-> EmptyLibrary,
     saved |-> EmptyLibrary, fresh |-> FALSE]

\* dict.get(key, default)
Get(d, key, default) == IF key \in DOMAIN d THEN d[key] ELSE default

\* PersonaManager._serialize_persona
serialize_persona(persona) ==
    IF Truthy(persona.notes)
    THEN [provider |-> persona.provider, model |-> persona.model,
          system |-> persona.system_prompt, guidelines |-> persona.guidelines,
          name |-> persona.name, notes |-> persona.notes]
    ELSE [provider |-> persona.provider, model |-> persona.model,
          system |-> persona.system_prompt, guidelines |-> persona.guidelines,
          name |-> persona.name]

\* PersonaManager.load_personas_from_config: the library read from
\* roles.json, empty when the file does not exist.
load_personas_from_config(r) ==
    IF ~r.exists THEN EmptyLibrary
    ELSE [key \in DOMAIN r.file |->
            PersonaDetail(Get(r.file[key], "name", key),
                          Get(r.file[key], "provider", "openai"),
                          Get(r.file[key], "system", ""),
                          Get(r.file[key], "temperature", 7),
                          Get(r.file[key], "model", NONE),
                          Get(r.file[key], "guidelines", <<>>),
                          Get(r.file[key], "notes", NONE))]

\* PersonaManager.upsert_persona: roles.json is read (an absent file reads
\* as an empty library), the entry is replaced by the serialized persona
\* and the file is written; the persona itself goes into the dictionary in
\* memory.
upsert_persona(persona_key, persona) ==
    /\ roles' = [exists |-> TRUE,
                 file |-> LibraryPut(roles.file, persona_key, serialize_persona(persona)),
                 persona_library |-> LibraryPut(roles.persona_library, persona_key, persona),
                 saved |-> LibraryPut(roles.saved, persona_key, persona),
                 fresh |-> FALSE]
    /\ UNCHANGED <<env, now, heap, conversations, obs, calls, raised, http, probe, genai>>

\* PersonaManager.delete_persona: the entry is removed from roles.json when
\* it is there, and from the dictionary in memory.
delete_persona(persona_key) ==
    /\ roles' = [roles EXCEPT !.file = LibraryDrop(@, persona_key),
                              !.persona_library = LibraryDrop(@, persona_key),
                              !.saved = LibraryDrop(@, persona_key)]
    /\ UNCHANGED <<env, now, heap, conversations, obs, calls, raised, http, probe, genai>>

\* startup_event: the process starts and loads its library from roles.json.
startup_event ==
    /\ roles' = [roles EXCEPT !.persona_library = load_personas_from_config(roles),
                              !.fresh = TRUE]
    /\ UNCHANGED <<env, now, heap, conversations, obs, calls, raised, http, probe, genai>>

\* An api_keys loop that leaves the process environment alone.
InjectNothing(e, api_keys) == e

\* The api_keys loop: each non-blank key of a known provider that has a
\* credential variable is written, stripped, into the process environment.
RECURSIVE InjectKeys(_, _)
InjectKeys(e, api_keys) ==
    IF Len(api_keys) = 0 THEN e
    ELSE LET provider == api_keys[1].provider
             key == api_keys[1].key
             rest == Tail(api_keys)
         IN  IF Truthy(key) /\ Truthy(Strip(key))
                /\ get_spec_exc(provider) = NOEXC
                /\ Truthy(get_spec(provider).key_env)
             THEN InjectKeys(setenv(e, get_spec(provider).key_env, Strip(key)), rest)
             ELSE InjectKeys(e, rest)

\* "Resolve configurations for Agent A/B": persona fields win when truthy.
SideConfig(persona_id, req_provider, req_temperature) ==
    LET has == Truthy(persona_id) /\ persona_id \in DOMAIN persona_library
        persona == persona_library[persona_id]
        provider == IF has /\ Truthy(persona.provider) THEN persona.provider ELSE req_provider
        temp == IF has /\ persona.temperature # 0 THEN persona.temperature ELSE req_temperature
        model == resolve_model(provider, IF has THEN persona.model ELSE NONE)
        ownSystem == has /\ Truthy(persona.system_prompt)
        exc == IF model.exc # NOEXC THEN model.exc
               ELSE IF ownSystem THEN NOEXC ELSE get_spec_exc(provider)
    IN  [exc |-> exc, provider |-> provider, temp |-> temp, model |-> model.val,
         system |-> IF ownSystem THEN persona.system_prompt
                    ELSE IF exc = NOEXC THEN get_spec(provider).default_system ELSE NONE]

\* The credential pre-check of both sides, before any agent is built.
EnsureBothSkipB(e, provider_a, provider_b) == ensure_credentials(e, provider_a).exc

EnsureBoth(e, provider_a, provider_b) ==
    IF ensure_credentials(e, provider_a).exc # NOEXC
    THEN ensure_credentials(e, provider_a).exc
    ELSE ensure_credentials(e, provider_b).exc

\* Returns the exception raised (or "None"), the environment and the two
\* agent fields as initialize_agents leaves them.
initialize_agents(e, request) ==
    LET e1 == IF Len(request.api_keys) > 0 THEN InjectKeys(e, request.api_keys) ELSE e
        a == SideConfig(request.persona_a, request.provider_a, request.temperature_a)
        b == SideConfig(request.persona_b, request.provider_b, request.temperature_b)
        agent_a == create_agent(e1, "A", a.provider, a.model, a.temp, a.system)
        agent_b == create_agent(e1, "B", b.provider, b.model, b.temp, b.system)
        out(x, aa, ab) == [exc |-> x, env |-> e1, agent_a |-> aa, agent_b |-> ab]
    IN  IF a.exc # NOEXC THEN out(a.exc, NoAgent, NoAgent)
        ELSE IF b.exc # NOEXC THEN out(b.exc, NoAgent, NoAgent)
        ELSE IF EnsureBoth(e1, a.provider, b.provider) # NOEXC
             THEN out(EnsureBoth(e1, a.provider, b.provider), NoAgent, NoAgent)
        ELSE IF agent_a.exc # NOEXC THEN out(agent_a.exc, NoAgent, NoAgent)
        ELSE IF agent_b.exc # NOEXC THEN out(agent_b.exc, agent_a.agent, NoAgent)
        ELSE out(NOEXC, agent_a.agent, agent_b.agent)

(***************************************************************************)
(* backend/main.py: requests, messages, Conversation objects.  A Message's *)
(* timestamp is not modelled.                                              *)
(***************************************************************************)
ConversationRequest(persona_a, persona_b, provider_a, provider_b, starter_message, max_rounds, mem_rounds, api_keys) ==
    [persona_a |-> persona_a, persona_b |-> persona_b,
     provider_a |-> provider_a, provider_b |-> provider_b,
     model_a |-> NONE, model_b |-> NONE,
     starter_message |-> starter_message,
     max_rounds |-> max_rounds, mem_rounds |-> mem_rounds,
     temperature_a |-> 7, temperature_b |-> 7,
     api_keys |-> api_keys]

Message(content, sender, persona) ==
    [content |-> content, sender |-> sender, persona |-> persona]

\* Conversation.__init__
Conversation(request, conversation_id) ==
    [request |-> request, messages |-> <<>>, agent_a |-> NoAgent, agent_b |-> NoAgent,
     active |-> TRUE, conversation_id |-> conversation_id]

\* datetime.now().strftime("conv_%Y%m%d_%H%M%S"): one identifier per second.
ConvId(t) == t

EmptyRegistry == [id \in {} |-> 0]

RegistryPut(reg, id, ref) ==
    [k \in DOMAIN reg \cup {id} |-> IF k = id THEN ref ELSE reg[k]]

\* The HTTP status create_conversation answers with for an exception class.
StatusOf(exc) ==
    IF exc = NOEXC THEN 200
    ELSE IF exc = "RuntimeError" THEN 400
    ELSE 500

\* conversations[conv_id] = conversation
Register(reg, conv_id, ref) == RegistryPut(reg, conv_id, ref)

\* POST /api/conversations at wall-clock second t.  The handler has no
\* suspension point, so it is one step.
create_conversation(request, t) ==
    /\ t >= now
    /\ \E init \in {initialize_agents(env, request)} :
          /\ now' = t
          /\ env' = init.env
          /\ heap' = Append(heap,
                 [Conversation(request, ConvId(t)) EXCEPT
                     !.agent_a = init.agent_a,
                     !.agent_b = init.agent_b,
                     !.messages = IF init.exc = NOEXC
                                  THEN <<Message(request.starter_message, "user", NONE)>>
                                  ELSE <<>>])
          /\ conversations' = Register(conversations, ConvId(t), Len(heap) + 1)
          /\ http' = [status |-> StatusOf(init.exc), exc |-> init.exc,
                      conv_id |-> ConvId(t), request |-> request,
                      before |-> conversations]
    /\ UNCHANGED <<obs, calls, raised, probe, genai, roles>>

\* The providers get_provider_status reports as connected: those that need a
\* key, have a credential variable and whose credential check returns a
\* value of at least ten characters.
ConnectedProviders(e) ==
    {p \in DOMAIN PROVIDERS :
        /\ get_spec(p).needs_key
        /\ Truthy(get_spec(p).key_env)
        /\ ensure_credentials(e, p).exc = NOEXC
        /\ Len(Strip(ensure_credentials(e, p).val)) >= 10}

\* GET/POST /api/provider-status: the api_keys of the body, if any, are
\* written into the process environment by the same loop as in
\* initialize_agents, then every provider's credential is checked.
get_provider_status(api_keys) ==
    /\ env' = InjectKeys(env, api_keys)
    /\ probe' = Outcome("get_provider_status", NONE, NONE,
                        [exc |-> NOEXC, val |-> ConnectedProviders(InjectKeys(env, api_keys))])
    /\ UNCHANGED <<now, heap, conversations, obs, calls, raised, http, genai, roles>>

\* GET /api/conversations/{id}/transcript: the history it reports
\* (message_count is its length); 404 when the id is not registered.
TranscriptFound(conversation_id) == conversation_id \in DOMAIN conversations

get_conversation_transcript(conversation_id) ==
    heap[conversations[conversation_id]].messages

(***************************************************************************)
(* backend/main.py: websocket_conversation.  The handler is a coroutine;   *)
(* it can be interleaved with other handlers only where it awaits: the     *)
(* stream writes, the adapter calls and the pacing sleeps.  pc names the   *)
(* await a handler is suspended at; one action runs it from there to its   *)
(* next await.                                                             *)
(***************************************************************************)
Event(type, sender, content) == [type |-> type, sender |-> sender, content |-> content]

MessageEvent(msg) == Event("message", msg.sender, msg.content)

\* The locals of a handler, with two counters kept for the properties:
\* ncalls, the adapter calls it has started, and pairs, the rounds in which
\* it has appended side B's reply.
IdleObserver ==
    [pc |-> "idle", conversation_id |-> 0, conv |-> 0, turn_counter |-> 0, idx |-> 0,
     ncalls |-> 0, pairs |-> 0, connected |-> TRUE, observed |-> FALSE, sent |-> <<>>,
     msg |-> Message("", NONE, NONE), err |-> NONE]

RECURSIVE Contents(_)
Contents(messages) ==
    IF Len(messages) = 0 THEN <<>>
    ELSE <<messages[1].content>> \o Contents(Tail(messages))

\* The context text of a turn: the contents of messages[-mem_rounds:],
\* joined by one space.
Context(c) == JoinWith(" ", Contents(PySliceFrom(c.messages, -c.request.mem_rounds)))

\* What the log keeps of a call: who made it (handler, conversation, side,
\* round), the prompt and window passed, the length n of the history and the
\* number k of messages joined into the prompt, and whether an earlier call
\* of the same conversation had already raised.
CallEntry(o, ob, c, side) ==
    [conv |-> ob.conv, obs |-> o, side |-> side, turn |-> ob.turn_counter,
     prompt |-> Context(c), mem_rounds |-> c.request.mem_rounds, n |-> Len(c.messages),
     k |-> Len(PySliceFrom(c.messages, -c.request.mem_rounds)),
     after_raise |-> ob.conv \in raised]

\* current_agent.generate_response(" ".join(context), mem_rounds) is started;
\* with current_agent None the attribute lookup raises at once.
TurnStart(o, ob, c, side, log) ==
    IF (IF side = "a" THEN c.agent_a ELSE c.agent_b) = NoAgent
    THEN [ob |-> [ob EXCEPT !.pc = "send_error", !.err = "AttributeError"], calls |-> log]
    ELSE [ob |-> [ob EXCEPT !.pc = IF side = "a" THEN "callA" ELSE "callB",
                            !.ncalls = @ + 1],
          calls |-> log \cup {CallEntry(o, ob, c, side)}]

\* The while test of the turn loop and, when it passes, the start of side A's turn.
LoopHead(o, ob, c, log) ==
    IF c.active /\ ob.turn_counter < c.request.max_rounds
    THEN TurnStart(o, [ob EXCEPT !.turn_counter = @ + 1], c, "a", log)
    ELSE [ob |-> [ob EXCEPT !.pc = "send_end"], calls |-> log]

\* The finally block: the conversation registered under the handler's
\* identifier, if any, is marked inactive.
Finalize(h, reg, conversation_id) ==
    IF conversation_id \in DOMAIN reg
    THEN [h EXCEPT ![reg[conversation_id]].active = FALSE]
    ELSE h

\* websocket.send_json(event): delivered, or an exception when the peer is gone.
Written(ob, event) == [ob EXCEPT !.sent = Append(@, event)]

WriteFailed(ob) == [ob EXCEPT !.observed = TRUE]

\* A client connects to /ws/conversations/{conversation_id}: accept, the two
\* lookups, and the start of the history replay.
Attach(o, conversation_id) ==
    /\ obs[o].pc = "idle"
    /\ LET ob == [obs[o] EXCEPT !.conversation_id = conversation_id] IN
       IF conversation_id \notin DOMAIN conversations
       THEN /\ obs' = [obs EXCEPT ![o] = [ob EXCEPT !.pc = "send_notfound"]]
            /\ calls' = calls
       ELSE IF ~heap[conversations[conversation_id]].active
       THEN /\ obs' = [obs EXCEPT ![o] = [ob EXCEPT !.pc = "send_inactive"]]
            /\ calls' = calls
       ELSE LET ref == conversations[conversation_id]
                bound == [ob EXCEPT !.conv = ref, !.idx = 1]
                next == LoopHead(o, bound, heap[ref], calls)
            IN  IF Len(heap[ref].messages) > 0
                THEN /\ obs' = [obs EXCEPT ![o] = [bound EXCEPT !.pc = "replay"]]
                     /\ calls' = calls
                ELSE /\ obs' = [obs EXCEPT ![o] = next.ob]
                     /\ calls' = next.calls
    /\ UNCHANGED <<env, now, heap, conversations, raised, http, probe, genai, roles>>

\* The untyped {"error": ...} frame of the two refusals, then return.
SendRefusal(o) ==
    /\ obs[o].pc \in {"send_notfound", "send_inactive"}
    /\ LET frame == Event(NONE, NONE,
                          IF obs[o].pc = "send_notfound" THEN "Conversation not found"
                          ELSE "Conversation is inactive")
           ob == IF obs[o].connected THEN Written(obs[o], frame) ELSE WriteFailed(obs[o])
       IN  obs' = [obs EXCEPT ![o] = [ob EXCEPT !.pc = "done"]]
    /\ heap' = Finalize(heap, conversations, obs[o].conversation_id)
    /\ UNCHANGED <<env, now, conversations, calls, raised, http, probe, genai, roles>>

\* A replay that writes the first message of the history only and then
\* enters the turn loop.
ReplayOne(o) ==
    /\ obs[o].pc = "replay"
    /\ LET c == heap[obs[o].conv] IN
       IF ~obs[o].connected
       THEN /\ obs' = [obs EXCEPT ![o] = [WriteFailed(obs[o]) EXCEPT !.pc = "done"]]
            /\ heap' = Finalize(heap, conversations, obs[o].conversation_id)
            /\ calls' = calls
       ELSE LET ob == [Written(obs[o], MessageEvent(c.messages[1])) EXCEPT !.idx = @ + 1]
                next == LoopHead(o, ob, c, calls)
            IN  /\ heap' = heap
                /\ obs' = [obs EXCEPT ![o] = next.ob]
                /\ calls' = next.calls
    /\ UNCHANGED <<env, now, conversations, raised, http, probe, genai, roles>>

\* One write of the replay loop `for msg in conversation.messages`.
Replay(o) ==
    /\ obs[o].pc = "replay"
    /\ LET c == heap[obs[o].conv] IN
       IF ~obs[o].connected
       THEN /\ obs' = [obs EXCEPT ![o] = [WriteFailed(obs[o]) EXCEPT !.pc = "done"]]
            /\ heap' = Finalize(heap, conversations, obs[o].conversation_id)
            /\ calls' = calls
       ELSE LET ob == [Written(obs[o], MessageEvent(c.messages[obs[o].idx]))
                          EXCEPT !.idx = @ + 1]
                next == LoopHead(o, ob, c, calls)
            IN  /\ heap' = heap
                /\ IF ob.idx <= Len(c.messages)
                   THEN obs' = [obs EXCEPT ![o] = ob] /\ calls' = calls
                   ELSE obs' = [obs EXCEPT ![o] = next.ob] /\ calls' = next.calls
    /\ UNCHANGED <<env, now, conversations, raised, http, probe, genai, roles>>

\* An adapter return that puts the new Message at the head of the history.
AdapterReturnAtHead(o, reply) ==
    /\ obs[o].pc \in {"callA", "callB"}
    /\ LET side == IF obs[o].pc = "callA" THEN "a" ELSE "b"
           c == heap[obs[o].conv]
           msg == Message(reply, IF side = "a" THEN "agent_a" ELSE "agent_b",
                          IF side = "a" THEN c.request.persona_a ELSE c.request.persona_b)
       IN  /\ heap' = [heap EXCEPT ![obs[o].conv].messages = <<msg>> \o @]
           /\ obs' = [obs EXCEPT ![o].msg = msg,
                                 ![o].pairs = IF side = "b" THEN @ + 1 ELSE @,
                                 ![o].pc = IF side = "a" THEN "sendA" ELSE "sendB"]
    /\ UNCHANGED <<env, now, conversations, calls, raised, http, probe, genai, roles>>

\* The adapter call returns text: the Message is built and appended.
AdapterReturn(o, reply) ==
    /\ obs[o].pc \in {"callA", "callB"}
    /\ LET side == IF obs[o].pc = "callA" THEN "a" ELSE "b"
           c == heap[obs[o].conv]
           msg == Message(reply, IF side = "a" THEN "agent_a" ELSE "agent_b",
                          IF side = "a" THEN c.request.persona_a ELSE c.request.persona_b)
       IN  /\ heap' = [heap EXCEPT ![obs[o].conv].messages = Append(@, msg)]
           /\ obs' = [obs EXCEPT ![o].msg = msg,
                                 ![o].pairs = IF side = "b" THEN @ + 1 ELSE @,
                                 ![o].pc = IF side = "a" THEN "sendA" ELSE "sendB"]
    /\ UNCHANGED <<env, now, conversations, calls, raised, http, probe, genai, roles>>

\* The adapter call raises: control passes to the loop's except clause.
AdapterRaise(o) ==
    /\ obs[o].pc \in {"callA", "callB"}
    /\ obs' = [obs EXCEPT ![o].pc = "send_error", ![o].err = "RuntimeError"]
    /\ raised' = raised \cup {obs[o].conv}
    /\ UNCHANGED <<env, now, heap, conversations, calls, http, probe, genai, roles>>

\* The provider answers the pending call: generate_response returns the text
\* it makes of the response, or raises.
ProviderResponds(o, response) ==
    /\ obs[o].pc \in {"callA", "callB"}
    /\ \E r \in {generate_response(IF obs[o].pc = "callA" THEN heap[obs[o].conv].agent_a
                                    ELSE heap[obs[o].conv].agent_b, response)} :
          IF r.exc = NOEXC THEN AdapterReturn(o, r.val) ELSE AdapterRaise(o)

\* The agent whose generate_response the handler is awaiting.
CurrentAgent(o) ==
    IF obs[o].pc = "callA" THEN heap[obs[o].conv].agent_a ELSE heap[obs[o].conv].agent_b

\* The handler's pending call, named by the handler and the number of its call.
PendingCall(o) == <<o, obs[o].ncalls>>

\* An SDK call made on the event-loop thread itself.
OnLoopThreadSdk(agent) == agent.kind \in {"Gemini", "AutoGen"}

\* Whether generate_response runs its blocking part on the event-loop
\* thread: never, the HTTP agents await httpx and the Gemini and AutoGen
\* agents hand their SDK call to asyncio.to_thread.
OnLoopThread(agent) == FALSE

\* No coroutine holds the event loop in a blocking call.
LoopFree ==
    \A o \in Observers : obs[o].pc \in {"callA", "callB"} => ~OnLoopThread(CurrentAgent(o))

\* The worker thread of a Gemini call runs genai.configure(api_key=self.api_key).
GeminiConfigure(o) ==
    /\ obs[o].pc \in {"callA", "callB"}
    /\ CurrentAgent(o).kind = "Gemini"
    /\ PendingCall(o) \notin genai.configured
    /\ genai' = [genai EXCEPT !.api_key = CurrentAgent(o).api_key,
                              !.configured = @ \cup {PendingCall(o)}]
    /\ UNCHANGED <<env, now, heap, conversations, obs, calls, raised, http, probe, roles>>

\* The worker thread builds its GenerativeModel and sends generate_content
\* with the key the module is configured with at that moment.
GeminiGenerate(o) ==
    /\ obs[o].pc \in {"callA", "callB"}
    /\ PendingCall(o) \in genai.configured
    /\ \A u \in genai.used : u.call # PendingCall(o)
    /\ genai' = [genai EXCEPT !.used = @ \cup {[call |-> PendingCall(o),
                                                 agent_key |-> CurrentAgent(o).api_key,
                                                 sent_key |-> genai.api_key]}]
    /\ UNCHANGED <<env, now, heap, conversations, obs, calls, raised, http, probe, roles>>

\* The awaited call completes and the handler resumes with its outcome; a
\* Gemini call completes after its worker thread has sent the request.
CallCompletes(o, response) ==
    /\ obs[o].pc \in {"callA", "callB"}
    /\ OnLoopThread(CurrentAgent(o)) \/ LoopFree
    /\ CurrentAgent(o).kind = "Gemini" => \E u \in genai.used : u.call = PendingCall(o)
    /\ ProviderResponds(o, response)

\* A write that emits the message just appended twice.
SendMessageTwice(o) ==
    /\ obs[o].pc \in {"sendA", "sendB"}
    /\ obs' = [obs EXCEPT ![o] =
                 IF obs[o].connected
                 THEN [Written(Written(obs[o], MessageEvent(obs[o].msg)),
                               MessageEvent(obs[o].msg)) EXCEPT
                          !.pc = IF obs[o].pc = "sendA" THEN "sleepA" ELSE "sleepB"]
                 ELSE [WriteFailed(obs[o]) EXCEPT
                          !.pc = "send_error", !.err = "WebSocketDisconnect"]]
    /\ UNCHANGED <<env, now, heap, conversations, calls, raised, http, probe, genai, roles>>

\* The write of the message just appended; a failed write is caught by the
\* loop's `except Exception`.
SendMessage(o) ==
    /\ obs[o].pc \in {"sendA", "sendB"}
    /\ obs' = [obs EXCEPT ![o] =
                 IF obs[o].connected
                 THEN [Written(obs[o], MessageEvent(obs[o].msg)) EXCEPT
                          !.pc = IF obs[o].pc = "sendA" THEN "sleepA" ELSE "sleepB"]
                 ELSE [WriteFailed(obs[o]) EXCEPT
                          !.pc = "send_error", !.err = "WebSocketDisconnect"]]
    /\ UNCHANGED <<env, now, heap, conversations, calls, raised, http, probe, genai, roles>>

\* A pacing sleep after which the round limit is tested before side B's turn
\* as well.
WakeTestsLimit(o) ==
    /\ obs[o].pc \in {"sleepA", "sleepB"}
    /\ LET c == heap[obs[o].conv]
           next == IF obs[o].pc = "sleepB" THEN LoopHead(o, obs[o], c, calls)
                   ELSE IF obs[o].turn_counter < c.request.max_rounds
                        THEN TurnStart(o, obs[o], c, "b", calls)
                        ELSE [ob |-> [obs[o] EXCEPT !.pc = "send_end"], calls |-> calls]
       IN  /\ obs' = [obs EXCEPT ![o] = next.ob]
           /\ calls' = next.calls
    /\ UNCHANGED <<env, now, heap, conversations, raised, http, probe, genai, roles>>

\* The pacing sleep ends: side B's turn starts, or the loop test is made again.
Wake(o) ==
    /\ obs[o].pc \in {"sleepA", "sleepB"}
    /\ LET c == heap[obs[o].conv]
           next == IF obs[o].pc = "sleepA"
                   THEN TurnStart(o, obs[o], c, "b", calls)
                   ELSE LoopHead(o, obs[o], c, calls)
       IN  /\ obs' = [obs EXCEPT ![o] = next.ob]
           /\ calls' = next.calls
    /\ UNCHANGED <<env, now, heap, conversations, raised, http, probe, genai, roles>>

\* An except clause that writes the error event and goes on with side B's
\* turn instead of breaking.
SendErrorContinue(o) ==
    /\ obs[o].pc = "send_error"
    /\ IF obs[o].connected
       THEN /\ obs' = [obs EXCEPT ![o] =
                         [Written(obs[o], Event("error", NONE, obs[o].err)) EXCEPT
                             !.pc = "sleepA"]]
            /\ heap' = heap
       ELSE /\ obs' = [obs EXCEPT ![o] = [WriteFailed(obs[o]) EXCEPT !.pc = "done"]]
            /\ heap' = Finalize(heap, conversations, obs[o].conversation_id)
    /\ UNCHANGED <<env, now, conversations, calls, raised, http, probe, genai, roles>>

\* The except clause of the loop: the error event, then break.  A failed
\* write leaves the handler through its outer except clauses.
SendError(o) ==
    /\ obs[o].pc = "send_error"
    /\ IF obs[o].connected
       THEN /\ obs' = [obs EXCEPT ![o] =
                         [Written(obs[o], Event("error", NONE, obs[o].err)) EXCEPT
                             !.pc = "send_end"]]
            /\ heap' = heap
       ELSE /\ obs' = [obs EXCEPT ![o] = [WriteFailed(obs[o]) EXCEPT !.pc = "done"]]
            /\ heap' = Finalize(heap, conversations, obs[o].conversation_id)
    /\ UNCHANGED <<env, now, conversations, calls, raised, http, probe, genai, roles>>

\* The conversation_end event, then the finally block.
SendEnd(o) ==
    /\ obs[o].pc = "send_end"
    /\ obs' = [obs EXCEPT ![o] =
                 [(IF obs[o].connected
                   THEN Written(obs[o], Event("conversation_end", NONE, NONE))
                   ELSE WriteFailed(obs[o])) EXCEPT !.pc = "done"]]
    /\ heap' = Finalize(heap, conversations, obs[o].conversation_id)
    /\ UNCHANGED <<env, now, conversations, calls, raised, http, probe, genai, roles>>

\* The client goes away while its handler runs.
Disconnect(o) ==
    /\ obs[o].pc \notin {"idle", "done"}
    /\ obs[o].connected
    /\ obs' = [obs EXCEPT ![o].connected = FALSE]
    /\ UNCHANGED <<env, now, heap, conversations, calls, raised, http, probe, genai, roles>>

(***************************************************************************)
(* backend/web_gui/backend/main.py: the older orchestrator.  Its           *)
(* create_conversation and initialize_agents take no personas and no keys; *)
(* its turn loop makes one turn per iteration, tests the length of the     *)
(* history against max_rounds * 2 before every turn, joins the last five   *)
(* messages into the prompt, calls generate_response(prompt) through       *)
(* run_in_executor and has no finally block.  Its agents are those of      *)
(* bridge_agents.create_agent, or the DummyAgent objects that              *)
(* tests/test_main.py installs in its place.                               *)
(***************************************************************************)
DummyAgent(name, provider, model, temperature, system_prompt) ==
    Agent("Dummy", name, model, temperature, system_prompt, NONE, NONE)

\* The stubbed module functions of the test fixture: nothing raises.
StubbedAgents(request) ==
    [exc |-> NOEXC, env |-> env,
     agent_a |-> DummyAgent("A", request.provider_a, request.provider_a \o "-model",
                            request.temperature_a, "Default system for " \o request.provider_a),
     agent_b |-> DummyAgent("B", request.provider_b, request.provider_b \o "-model",
                            request.temperature_b, "Default system for " \o request.provider_b)]

\* POST /api/conversations of the older orchestrator.
LegacyCreateConversation(request, t, stubbed) ==
    /\ t >= now
    /\ \E init \in {IF stubbed THEN StubbedAgents(request)
                    ELSE initialize_agents(env, [request EXCEPT !.persona_a = NONE,
                                                                !.persona_b = NONE,
                                                                !.api_keys = <<>>])} :
          /\ now' = t
          /\ env' = init.env
          /\ heap' = Append(heap,
                 [Conversation(request, ConvId(t)) EXCEPT
                     !.agent_a = init.agent_a,
                     !.agent_b = init.agent_b,
                     !.messages = IF init.exc = NOEXC
                                  THEN <<Message(request.starter_message, "user", NONE)>>
                                  ELSE <<>>])
          /\ conversations' = Register(conversations, ConvId(t), Len(heap) + 1)
          /\ http' = [status |-> StatusOf(init.exc), exc |-> init.exc,
                      conv_id |-> ConvId(t), request |-> request,
                      before |-> conversations]
    /\ UNCHANGED <<obs, calls, raised, probe, genai, roles>>

\* The prompt of a turn: the contents of messages[-5:], joined by one space.
LegacyContext(c) == JoinWith(" ", Contents(PySliceFrom(c.messages, -5)))

LegacyCallEntry(o, ob, c, side) ==
    [conv |-> ob.conv, obs |-> o, side |-> side, turn |-> 0,
     prompt |-> LegacyContext(c), mem_rounds |-> 5, n |-> Len(c.messages),
     k |-> Len(PySliceFrom(c.messages, -5)),
     after_raise |-> ob.conv \in raised]

LegacyTurnStart(o, ob, c, side, log) ==
    IF (IF side = "a" THEN c.agent_a ELSE c.agent_b) = NoAgent
    THEN [ob |-> [ob EXCEPT !.pc = "send_error", !.err = "AttributeError"], calls |-> log]
    ELSE [ob |-> [ob EXCEPT !.pc = IF side = "a" THEN "callA" ELSE "callB",
                            !.ncalls = @ + 1],
          calls |-> log \cup {LegacyCallEntry(o, ob, c, side)}]

\* A loop test that counts the agent messages only.
LegacyLoopHeadAgentOnly(o, ob, c, side, log) ==
    IF c.active /\ Len(c.messages) - 1 < c.request.max_rounds * 2
    THEN LegacyTurnStart(o, ob, c, side, log)
    ELSE [ob |-> [ob EXCEPT !.pc = "send_end"], calls |-> log]

\* while conversation.active and len(conversation.messages) < max_rounds * 2,
\* and, when it passes, the start of the turn of the current agent.
LegacyLoopHead(o, ob, c, side, log) ==
    IF c.active /\ Len(c.messages) < c.request.max_rounds * 2
    THEN LegacyTurnStart(o, ob, c, side, log)
    ELSE [ob |-> [ob EXCEPT !.pc = "send_end"], calls |-> log]

LegacyAttach(o, conversation_id) ==
    /\ obs[o].pc = "idle"
    /\ LET ob == [obs[o] EXCEPT !.conversation_id = conversation_id] IN
       IF conversation_id \notin DOMAIN conversations
       THEN /\ obs' = [obs EXCEPT ![o] = [ob EXCEPT !.pc = "send_notfound"]]
            /\ calls' = calls
       ELSE IF ~heap[conversations[conversation_id]].active
       THEN /\ obs' = [obs EXCEPT ![o] = [ob EXCEPT !.pc = "send_inactive"]]
            /\ calls' = calls
       ELSE LET ref == conversations[conversation_id]
                bound == [ob EXCEPT !.conv = ref, !.idx = 1]
                next == LegacyLoopHead(o, bound, heap[ref], "a", calls)
            IN  IF Len(heap[ref].messages) > 0
                THEN /\ obs' = [obs EXCEPT ![o] = [bound EXCEPT !.pc = "replay"]]
                     /\ calls' = calls
                ELSE /\ obs' = [obs EXCEPT ![o] = next.ob]
                     /\ calls' = next.calls
    /\ UNCHANGED <<env, now, heap, conversations, raised, http, probe, genai, roles>>

\* The refusal frame, then return; nothing is finalized.
LegacySendRefusal(o) ==
    /\ obs[o].pc \in {"send_notfound", "send_inactive"}
    /\ LET frame == Event(NONE, NONE,
                          IF obs[o].pc = "send_notfound" THEN "Conversation not found"
                          ELSE "Conversation is inactive")
           ob == IF obs[o].connected THEN Written(obs[o], frame) ELSE WriteFailed(obs[o])
       IN  obs' = [obs EXCEPT ![o] = [ob EXCEPT !.pc = "done"]]
    /\ UNCHANGED <<env, now, heap, conversations, calls, raised, http, probe, genai, roles>>

LegacyReplay(o) ==
    /\ obs[o].pc = "replay"
    /\ LET c == heap[obs[o].conv] IN
       IF ~obs[o].connected
       THEN /\ obs' = [obs EXCEPT ![o] = [WriteFailed(obs[o]) EXCEPT !.pc = "done"]]
            /\ calls' = calls
       ELSE LET ob == [Written(obs[o], MessageEvent(c.messages[obs[o].idx]))
                          EXCEPT !.idx = @ + 1]
                next == LegacyLoopHead(o, ob, c, "a", calls)
            IN  IF ob.idx <= Len(c.messages)
                THEN obs' = [obs EXCEPT ![o] = ob] /\ calls' = calls
                ELSE obs' = [obs EXCEPT ![o] = next.ob] /\ calls' = next.calls
    /\ UNCHANGED <<env, now, heap, conversations, raised, http, probe, genai, roles>>

\* The prompt the handler passed to its pending call.
LegacyPrompt(o) ==
    (CHOOSE e \in calls : /\ e.obs = o
                          /\ \A f \in calls : f.obs = o => f.n <= e.n).prompt

\* DummyAgent.generate_response(context), run in the executor, returns;
\* the Message is built and appended.
LegacyExecutorReturns(o) ==
    /\ obs[o].pc \in {"callA", "callB"}
    /\ CurrentAgent(o).kind = "Dummy"
    /\ LET side == IF obs[o].pc = "callA" THEN "a" ELSE "b"
           c == heap[obs[o].conv]
           response == CurrentAgent(o).name \o " response to: " \o Strip(LegacyPrompt(o))
           msg == Message(response, IF side = "a" THEN "agent_a" ELSE "agent_b",
                          IF side = "a" THEN c.request.persona_a ELSE c.request.persona_b)
       IN  /\ heap' = [heap EXCEPT ![obs[o].conv].messages = Append(@, msg)]
           /\ obs' = [obs EXCEPT ![o].msg = msg,
                                 ![o].pairs = IF side = "b" THEN @ + 1 ELSE @,
                                 ![o].pc = IF side = "a" THEN "sendA" ELSE "sendB"]
    /\ UNCHANGED <<env, now, conversations, calls, raised, http, probe, genai, roles>>

\* An agent of bridge_agents: its generate_response is a coroutine function
\* of (prompt, mem_rounds); called in the executor with the prompt alone it
\* raises TypeError, which the await re-raises in the loop.
LegacyExecutorRaises(o) ==
    /\ obs[o].pc \in {"callA", "callB"}
    /\ CurrentAgent(o).kind # "Dummy"
    /\ obs' = [obs EXCEPT ![o].pc = "send_error", ![o].err = "TypeError"]
    /\ raised' = raised \cup {obs[o].conv}
    /\ UNCHANGED <<env, now, heap, conversations, calls, http, probe, genai, roles>>

\* The write of the message just appended, as in the newer orchestrator.
LegacySendMessage(o) == SendMessage(o)

\* The sleep after a turn ends: the agents are switched and the loop test is
\* made again.
LegacyWake(o) ==
    /\ obs[o].pc \in {"sleepA", "sleepB"}
    /\ LET next == LegacyLoopHead(o, obs[o], heap[obs[o].conv],
                                  IF obs[o].pc = "sleepA" THEN "b" ELSE "a", calls)
       IN  /\ obs' = [obs EXCEPT ![o] = next.ob]
           /\ calls' = next.calls
    /\ UNCHANGED <<env, now, heap, conversations, raised, http, probe, genai, roles>>

LegacySendError(o) ==
    /\ obs[o].pc = "send_error"
    /\ obs' = [obs EXCEPT ![o] =
                 IF obs[o].connected
                 THEN [Written(obs[o], Event("error", NONE, obs[o].err)) EXCEPT
                          !.pc = "send_end"]
                 ELSE [WriteFailed(obs[o]) EXCEPT !.pc = "done"]]
    /\ UNCHANGED <<env, now, heap, conversations, calls, raised, http, probe, genai, roles>>

LegacySendEnd(o) ==
    /\ obs[o].pc = "send_end"
    /\ obs' = [obs EXCEPT ![o] =
                 [(IF obs[o].connected
                   THEN Written(obs[o], Event("conversation_end", NONE, NONE))
                   ELSE WriteFailed(obs[o])) EXCEPT !.pc = "done"]]
    /\ UNCHANGED <<env, now, heap, conversations, calls, raised, http, probe, genai, roles>>

(***************************************************************************)
(* Specifications.                                                         *)
(***************************************************************************)
NoRequest == ConversationRequest(NONE, NONE, "", "", "", 0, 0, <<>>)

InitWith(e) ==
    /\ env = e
    /\ now = 0
    /\ heap = <<>>
    /\ conversations = EmptyRegistry
    /\ obs = [o \in Observers |-> IdleObserver]
    /\ calls = {}
    /\ raised = {}
    /\ http = [status |-> 0, exc |-> NOEXC, conv_id |-> 0, request |-> NoRequest,
               before |-> EmptyRegistry]
    /\ probe = NoCall
    /\ genai = [api_key |-> NONE, configured |-> {}, used |-> {}]
    /\ roles = NoRoles

EmptyEnv == [k \in {} |-> ""]

Clock == 0..MaxClock

\* The orchestrator: local providers (no credential), one reply text, every
\* round limit up to MaxRounds, and one request whose provider is unknown.
Requests ==
    {ConversationRequest(NONE, NONE, "ollama", "lmstudio", "s", r, 1, <<>>) : r \in 0..MaxRounds}
    \cup {ConversationRequest(NONE, NONE, "ollama", "nope", "s", 1, 1, <<>>)}

Replies == {"x"}

Init == InitWith(EmptyEnv)

Next ==
    \/ \E r \in Requests, t \in Clock : Len(heap) < MaxConvs /\ create_conversation(r, t)
    \/ \E o \in Observers, id \in {ConvId(t) : t \in Clock} : Attach(o, id)
    \/ \E o \in Observers : SendRefusal(o)
    \/ \E o \in Observers : Replay(o)
    \/ \E o \in Observers, reply \in Replies : AdapterReturn(o, reply)
    \/ \E o \in Observers : AdapterRaise(o)
    \/ \E o \in Observers : SendMessage(o)
    \/ \E o \in Observers : Wake(o)
    \/ \E o \in Observers : SendError(o)
    \/ \E o \in Observers : SendEnd(o)
    \/ \E o \in Observers : Disconnect(o)

Spec == Init /\ [][Next]_vars

\* What resumes a suspended handler: the completion (return or failure) of
\* the stream write, adapter call or sleep it awaits.
Resume(o) ==
    \/ SendRefusal(o)
    \/ Replay(o)
    \/ \E reply \in Replies : AdapterReturn(o, reply)
    \/ AdapterRaise(o)
    \/ SendMessage(o)
    \/ Wake(o)
    \/ SendError(o)
    \/ SendEnd(o)

\* Every awaited adapter call, stream write and sleep eventually returns or
\* fails, and the event loop then resumes the handler.
FairSpec == Spec /\ \A o \in Observers : WF_vars(Resume(o))

\* The context window: one conversation, one observer, every window size up
\* to MaxWindow, WindowRounds rounds and two reply texts.
WindowRequests ==
    {ConversationRequest(NONE, NONE, "ollama", "lmstudio", "s", WindowRounds, w, <<>>) :
        w \in 0..MaxWindow}

WindowReplies == {"x", "y"}

WindowObservers == {1}

NextWindow ==
    \/ \E r \in WindowRequests : Len(heap) < 1 /\ create_conversation(r, 0)
    \/ \E o \in WindowObservers : Attach(o, ConvId(0))
    \/ \E o \in WindowObservers : SendRefusal(o)
    \/ \E o \in WindowObservers : Replay(o)
    \/ \E o \in WindowObservers, reply \in WindowReplies : AdapterReturn(o, reply)
    \/ \E o \in WindowObservers : AdapterRaise(o)
    \/ \E o \in WindowObservers : SendMessage(o)
    \/ \E o \in WindowObservers : Wake(o)
    \/ \E o \in WindowObservers : SendError(o)
    \/ \E o \in WindowObservers : SendEnd(o)
    \/ \E o \in WindowObservers : Disconnect(o)

SpecWindow == Init /\ [][NextWindow]_vars

\* Conversation creation: credentialed, local, unknown and wrongly cased
\* providers on either side, personas, per-request keys, requested models
\* and temperatures, and three initial environments.
Key(provider, key) == [provider |-> provider, key |-> key]

CreateRequests ==
    {ConversationRequest(NONE, NONE, "ollama", "lmstudio", "s", 1, 1, <<>>),
     ConversationRequest(NONE, NONE, "openai", "ollama", "s", 1, 1, <<>>),
     ConversationRequest(NONE, NONE, "ollama", "openai", "s", 1, 1, <<>>),
     ConversationRequest(NONE, NONE, "openai", "anthropic", "s", 1, 1,
                         <<Key("openai", " sk-1 ")>>),
     ConversationRequest(NONE, NONE, "openai", "anthropic", "s", 1, 1,
                         <<Key("openai", "sk-1"), Key("anthropic", "sk-2")>>),
     ConversationRequest(NONE, NONE, "nope", "ollama", "s", 1, 1, <<>>),
     ConversationRequest(NONE, NONE, "ollama", "nope", "s", 1, 1, <<>>),
     ConversationRequest(NONE, NONE, "OpenAI", "ollama", "s", 1, 1, <<>>),
     ConversationRequest("helper", NONE, "ollama", "gemini", "s", 1, 1,
                         <<Key("gemini", "sk-3")>>),
     ConversationRequest(NONE, "cold", "ollama", "nope", "s", 1, 1, <<>>),
     ConversationRequest(NONE, NONE, "autogen", "deepseek", "s", 1, 1,
                         <<Key("nope", "sk-4"), Key("deepseek", "   ")>>),
     [ConversationRequest(NONE, NONE, "ollama", "lmstudio", "s", 1, 1, <<>>) EXCEPT
         !.model_a = "m-a", !.model_b = "m-b"],
     [ConversationRequest("cold", NONE, "ollama", "lmstudio", "s", 1, 1, <<>>) EXCEPT
         !.temperature_a = 3, !.temperature_b = 0]}

CreateEnvs ==
    {EmptyEnv,
     [k \in {"OPENAI_API_KEY"} |-> "sk-0"],
     [k \in {"OPENAI_API_KEY", "ANTHROPIC_API_KEY"} |->
        IF k = "OPENAI_API_KEY" THEN "  " ELSE "sk-9"]}

InitCreate == \E e \in CreateEnvs : InitWith(e)

NextCreate ==
    \E r \in CreateRequests, t \in Clock : Len(heap) < MaxConvs /\ create_conversation(r, t)

SpecCreate == InitCreate /\ [][NextCreate]_vars

\* Late attachment: one conversation and two observers, so that a handler
\* can attach to a history that another handler has already extended.
ReplayRequests ==
    {ConversationRequest(NONE, NONE, "ollama", "lmstudio", "s", r, 1, <<>>) : r \in 1..MaxRounds}

ReplayObservers == {1, 2}

NextReplay ==
    \/ \E r \in ReplayRequests : Len(heap) < 1 /\ create_conversation(r, 0)
    \/ \E o \in ReplayObservers : Attach(o, ConvId(0))
    \/ \E o \in ReplayObservers : SendRefusal(o)
    \/ \E o \in ReplayObservers : Replay(o)
    \/ \E o \in ReplayObservers, reply \in Replies : AdapterReturn(o, reply)
    \/ \E o \in ReplayObservers : AdapterRaise(o)
    \/ \E o \in ReplayObservers : SendMessage(o)
    \/ \E o \in ReplayObservers : Wake(o)
    \/ \E o \in ReplayObservers : SendError(o)
    \/ \E o \in ReplayObservers : SendEnd(o)
    \/ \E o \in ReplayObservers : Disconnect(o)

SpecReplay == Init /\ [][NextReplay]_vars

\* The adapters: one conversation between two agents of different classes,
\* one observer, and provider responses with no part, empty, blank, padded
\* and plain contents, a non-text part and a failed request.
AdapterEnv ==
    [k \in {"OPENAI_API_KEY", "ANTHROPIC_API_KEY", "GOOGLE_API_KEY"} |-> "sk-0"]

AdapterRequests ==
    {ConversationRequest(NONE, NONE, "ollama", "anthropic", "s", 1, 1, <<>>),
     ConversationRequest(NONE, NONE, "gemini", "autogen", "s", 1, 1, <<>>),
     ConversationRequest(NONE, NONE, "anthropic", "openai", "s", 1, 1, <<>>)}

Texts == {NONE, "", " ", "x", " x "}

ProviderResponses ==
    {Response(FALSE, <<>>), Response(TRUE, <<>>)}
    \cup {Response(TRUE, <<Part("text", t, t)>>) : t \in Texts}
    \cup {Response(TRUE, <<Part("text", NONE, t)>>) : t \in {" ", "x"}}
    \cup {Response(TRUE, <<Part("tool_use", "x", "x")>>),
          Response(TRUE, <<Part("text", " ", " "), Part("text", "x", "x")>>)}

InitAdapter == InitWith(AdapterEnv)

NextAdapter ==
    \/ \E r \in AdapterRequests : Len(heap) < 1 /\ create_conversation(r, 0)
    \/ \E o \in WindowObservers : Attach(o, ConvId(0))
    \/ \E o \in WindowObservers : SendRefusal(o)
    \/ \E o \in WindowObservers : Replay(o)
    \/ \E o \in WindowObservers, response \in ProviderResponses : ProviderResponds(o, response)
    \/ \E o \in WindowObservers : SendMessage(o)
    \/ \E o \in WindowObservers : Wake(o)
    \/ \E o \in WindowObservers : SendError(o)
    \/ \E o \in WindowObservers : SendEnd(o)
    \/ \E o \in WindowObservers : Disconnect(o)

SpecAdapter == InitAdapter /\ [][NextAdapter]_vars

\* The registry functions called directly: every registered identifier,
\* unknown, wrongly cased, empty and padded identifiers, and requested
\* models that are absent, empty, blank, plain, padded and with an inner space.
ProviderIds == DOMAIN PROVIDERS \cup {"nope", "OpenAI", "", " openai"}

ModelNames == {NONE, "", " ", "  ", "m", " m", "m ", " m ", "a b", " a b "}

NextRegistry ==
    \/ \E id \in ProviderIds : CallGetSpec(id)
    \/ \E id \in ProviderIds, requested \in ModelNames : CallResolveModel(id, requested)

SpecRegistry == Init /\ [][NextRegistry]_vars

\* Worker threads: conversation X between two Gemini agents and conversation
\* Y between a Gemini agent and a local one, created with different Gemini
\* keys, and two observers.  The event loop runs a coroutine only when no
\* blocking call holds it.
ThreadRequests ==
    {ConversationRequest(NONE, NONE, "gemini", "gemini", "s", r, 1,
                         <<Key("gemini", "sk-3")>>) : r \in 1..MaxRounds}
    \cup {ConversationRequest(NONE, NONE, "gemini", "ollama", "s", r, 1,
                              <<Key("gemini", "sk-4")>>) : r \in 1..MaxRounds}

ThreadResponses == {Response(TRUE, <<Part("text", "x", "x")>>), Response(FALSE, <<>>)}

ThreadObservers == {1, 2}

\* The steps of a handler that the event loop runs.
HandlerStep(o) ==
    /\ LoopFree
    /\ \/ SendRefusal(o)
       \/ Replay(o)
       \/ SendMessage(o)
       \/ Wake(o)
       \/ SendError(o)
       \/ SendEnd(o)

\* The steps of a handler's pending adapter call.
CallStep(o) ==
    \/ GeminiConfigure(o)
    \/ GeminiGenerate(o)
    \/ \E response \in ThreadResponses : CallCompletes(o, response)

NextThreads ==
    \/ \E r \in ThreadRequests, t \in Clock :
          LoopFree /\ Len(heap) < MaxConvs /\ create_conversation(r, t)
    \/ \E o \in ThreadObservers, id \in {ConvId(t) : t \in Clock} : LoopFree /\ Attach(o, id)
    \/ \E o \in ThreadObservers : HandlerStep(o)
    \/ \E o \in ThreadObservers : CallStep(o)
    \/ \E o \in ThreadObservers : Disconnect(o)

SpecThreads == Init /\ [][NextThreads]_vars

\* The two orchestrators side by side on the same request: conversation 1
\* is created and run by the newer one for observer 1, conversation 2 by
\* the older one for observer 2.
LoopRequests ==
    {ConversationRequest(NONE, NONE, "ollama", "lmstudio", "s", r, 1, <<>>) : r \in 1..MaxRounds}

NextLoops ==
    \/ \E r \in LoopRequests : Len(heap) = 0 /\ create_conversation(r, 0)
    \/ Attach(1, ConvId(0))
    \/ SendRefusal(1)
    \/ Replay(1)
    \/ \E reply \in Replies : AdapterReturn(1, reply)
    \/ AdapterRaise(1)
    \/ SendMessage(1)
    \/ Wake(1)
    \/ SendError(1)
    \/ SendEnd(1)
    \/ \E stubbed \in BOOLEAN :
          Len(heap) = 1 /\ LegacyCreateConversation(heap[1].request, 1, stubbed)
    \/ LegacyAttach(2, ConvId(1))
    \/ LegacySendRefusal(2)
    \/ LegacyReplay(2)
    \/ LegacyExecutorReturns(2)
    \/ LegacyExecutorRaises(2)
    \/ LegacySendMessage(2)
    \/ LegacyWake(2)
    \/ LegacySendError(2)
    \/ LegacySendEnd(2)
    \/ \E o \in {1, 2} : Disconnect(o)

SpecLoops == Init /\ [][NextLoops]_vars

\* The persona store: personas are saved and deleted under two keys and the
\* process is restarted in between.
PersonaKeys == {"helper", "cold"}

Personas ==
    {PersonaDetail("Helper", "openai", system_prompt, temperature, model, guidelines, notes) :
        system_prompt \in {"", "Be helpful"}, temperature \in {7, 3}, model \in {NONE, "m1"},
        guidelines \in {<<>>, <<"Keep it short">>}, notes \in {NONE, "", "n"}}

NextPersonas ==
    \/ \E key \in PersonaKeys, persona \in Personas : upsert_persona(key, persona)
    \/ \E key \in PersonaKeys : delete_persona(key)
    \/ startup_event

SpecPersonas == Init /\ [][NextPersonas]_vars

\* Credentials: creation requests and provider-status checks in any order,
\* with per-request keys for one side, for both sides, for two providers
\* that share a credential variable, and for a provider chosen by a persona.
KeyEnvs == {EmptyEnv, [k \in {"OPENAI_API_KEY"} |-> "sk-0"]}

KeyRequests ==
    {ConversationRequest(NONE, NONE, "openai", "anthropic", "s", 1, 1,
                         <<Key("openai", "sk-1"), Key("anthropic", "sk-2")>>),
     ConversationRequest(NONE, NONE, "openai", "autogen", "s", 1, 1,
                         <<Key("openai", "sk-1"), Key("autogen", "sk-2")>>),
     ConversationRequest(NONE, NONE, "autogen", "ollama", "s", 1, 1,
                         <<Key("autogen", " sk-5 ")>>),
     ConversationRequest("helper", NONE, "ollama", "openai", "s", 1, 1,
                         <<Key("anthropic", "sk-6")>>),
     ConversationRequest(NONE, NONE, "ollama", "gemini", "s", 1, 1,
                         <<Key("gemini", "  ")>>)}

StatusBodies ==
    {<<>>,
     <<Key("openai", "sk-7")>>,
     <<Key("gemini", " sk-0123456 "), Key("nope", "sk-8")>>,
     <<Key("anthropic", " ")>>}

InitKeys == \E e \in KeyEnvs : InitWith(e)

NextKeys ==
    \/ \E r \in KeyRequests, t \in Clock : Len(heap) < MaxConvs /\ create_conversation(r, t)
    \/ \E body \in StatusBodies : get_provider_status(body)

SpecKeys == InitKeys /\ [][NextKeys]_vars

\* A hanging call: conversation X (two Gemini agents) is created first and
\* watched by observer 1, conversation Y is created a second later and
\* watched by observer 2.  The event loop resumes every ready coroutine and
\* the calls of Y complete (weak fairness on the steps of observer 2); the
\* calls of X may never return (no fairness on the steps of observer 1).
HangingRequests ==
    {ConversationRequest(NONE, NONE, "gemini", "gemini", "s", r, 1,
                         <<Key("gemini", "sk-3")>>) : r \in 1..MaxRounds}

UnrelatedRequests ==
    {ConversationRequest(NONE, NONE, "gemini", "ollama", "s", r, 1,
                         <<Key("gemini", "sk-4")>>) : r \in 1..MaxRounds}

NextHanging ==
    \/ \E r \in HangingRequests : LoopFree /\ Len(heap) = 0 /\ create_conversation(r, 0)
    \/ \E r \in UnrelatedRequests : LoopFree /\ Len(heap) = 1 /\ create_conversation(r, 1)
    \/ LoopFree /\ Attach(1, ConvId(0))
    \/ LoopFree /\ Attach(2, ConvId(1))
    \/ \E o \in ThreadObservers : HandlerStep(o)
    \/ \E o \in ThreadObservers : CallStep(o)
    \/ \E o \in ThreadObservers : Disconnect(o)

SpecHanging == Init /\ [][NextHanging]_vars

FairHanging == SpecHanging /\ WF_vars(HandlerStep(2) \/ CallStep(2))

\* The credential check and the agent factory called directly, in every
\* configuration state of three credential variables: unset, empty, blank,
\* plain and padded values.
CredentialValues == {NONE, "", "  ", "sk-1", " sk-1 "}

EnvOf(openai, anthropic, google) ==
    [k \in {n \in {"OPENAI_API_KEY", "ANTHROPIC_API_KEY", "GOOGLE_API_KEY"} :
               (CASE n = "OPENAI_API_KEY" -> openai
                  [] n = "ANTHROPIC_API_KEY" -> anthropic
                  [] n = "GOOGLE_API_KEY" -> google) # NONE} |->
        CASE k = "OPENAI_API_KEY" -> openai
          [] k = "ANTHROPIC_API_KEY" -> anthropic
          [] k = "GOOGLE_API_KEY" -> google]

FactoryEnvs ==
    {EnvOf(o, a, g) : o \in CredentialValues, a \in CredentialValues, g \in {NONE, "sk-3"}}

FactoryModels == {NONE, " m "}

FactoryTemperatures == {0, 7}

InitFactory == \E e \in FactoryEnvs : InitWith(e)

NextFactory ==
    \/ \E id \in ProviderIds : CallEnsureCredentials(id)
    \/ \E id \in ProviderIds, model \in FactoryModels, temperature \in FactoryTemperatures :
          CallCreateAgent(id, model, temperature)

SpecFactory == InitFactory /\ [][NextFactory]_vars

(***************************************************************************)
(* Vocabulary of the properties.                                           *)
(***************************************************************************)
Refs == 1..Len(heap)

\* The conversation was created: its request was answered 200.
Created(ref) == heap[ref].agent_a # NoAgent /\ heap[ref].agent_b # NoAgent

\* Handlers that reached the replay of conversation ref.
Attached(ref) == {o \in Observers : obs[o].conv = ref}

\* The handler ended and its client never went away.
EndedConnected(o) == obs[o].pc = "done" /\ obs[o].connected /\ ~obs[o].observed

Senders(messages) == [i \in 1..Len(messages) |-> messages[i].sender]

\* user, agent_a, agent_b, agent_a, agent_b, ...
Alternating(n) ==
    [i \in 1..n |-> IF i = 1 THEN "user" ELSE IF i % 2 = 0 THEN "agent_a" ELSE "agent_b"]

EventsOfType(o, type) == SelectSeq(obs[o].sent, LAMBDA ev : ev.type = type)

CallsOf(o) == {e \in calls : e.obs = o}

(***************************************************************************)
(* C1: a created conversation with max_rounds = N whose adapters never     *)
(* raise and whose single observer stays connected ends with exactly       *)
(* 1 + 2N messages, the starter then N agent_a/agent_b pairs, and the      *)
(* observer's stream ends with conversation_end after all of them.         *)
(***************************************************************************)
C1_RoundLimitReached ==
    \A o \in Observers :
        LET ref == obs[o].conv IN
        (/\ EndedConnected(o)
         /\ ref # 0
         /\ Created(ref)
         /\ Attached(ref) = {o}
         /\ ref \notin raised)
        => /\ Len(heap[ref].messages) = 1 + 2 * heap[ref].request.max_rounds
           /\ Senders(heap[ref].messages) = Alternating(Len(heap[ref].messages))
           /\ obs[o].sent =
                [i \in 1..Len(heap[ref].messages) |-> MessageEvent(heap[ref].messages[i])]
                \o <<Event("conversation_end", NONE, NONE)>>

\* The single observer of a one-round conversation saw it run to its limit.
C1_Witness ==
    \E o \in Observers :
        LET ref == obs[o].conv IN
        /\ EndedConnected(o)
        /\ ref # 0
        /\ Created(ref)
        /\ Attached(ref) = {o}
        /\ ref \notin raised
        /\ heap[ref].request.max_rounds = 1
        /\ Senders(heap[ref].messages) = <<"user", "agent_a", "agent_b">>
        /\ obs[o].sent[Len(obs[o].sent)].type = "conversation_end"

(***************************************************************************)
(* C2: in every reachable state the senders of every history alternate:    *)
(* 'user' first, then agent_a, agent_b, agent_a, agent_b, ...              *)
(***************************************************************************)
C2_SendersAlternate ==
    \A ref \in Refs :
        Senders(heap[ref].messages) = Alternating(Len(heap[ref].messages))

(***************************************************************************)
(* C3: when the first side-A call of a handler raises, its observer gets   *)
(* exactly one error event followed by conversation_end, the history       *)
(* holds only the starter message, and side B is never called.             *)
(***************************************************************************)
FirstCallRaised(o) ==
    /\ obs[o].err = "RuntimeError"
    /\ obs[o].turn_counter = 1
    /\ obs[o].msg.sender = NONE

C3_FirstCallFails ==
    \A o \in Observers :
        (EndedConnected(o) /\ FirstCallRaised(o))
        => /\ Len(EventsOfType(o, "error")) = 1
           /\ Len(obs[o].sent) >= 2
           /\ obs[o].sent[Len(obs[o].sent) - 1].type = "error"
           /\ obs[o].sent[Len(obs[o].sent)].type = "conversation_end"
           /\ Senders(heap[obs[o].conv].messages) = <<"user">>
           /\ ~\E e \in calls : e.conv = obs[o].conv /\ e.side = "b"

\* A handler whose first side-A call raised ended as the claim says.
C3_Witness ==
    \E o \in Observers :
        /\ EndedConnected(o)
        /\ FirstCallRaised(o)
        /\ Len(EventsOfType(o, "error")) = 1
        /\ obs[o].sent[Len(obs[o].sent)].type = "conversation_end"
        /\ Senders(heap[obs[o].conv].messages) = <<"user">>
        /\ CallsOf(o) # {}

(***************************************************************************)
(* C4: once a generate_response call of a conversation has raised, no      *)
(* further call is made for that conversation, and a handler never makes   *)
(* more than one call in a turn.                                           *)
(***************************************************************************)
TurnsCalled(o) == {<<e.turn, e.side>> : e \in CallsOf(o)}

C4_NoCallAfterFailure ==
    /\ \A e \in calls : ~e.after_raise
    /\ \A o \in Observers : obs[o].ncalls = Cardinality(TurnsCalled(o))

(***************************************************************************)
(* C5: for mem_rounds = w >= 1 and a history of n messages, the prompt of   *)
(* every adapter call is the contents of the last min(w, n) messages of    *)
(* the history at the time of the call, oldest first, joined by single     *)
(* spaces; side B's call is made on a history that holds side A's reply of *)
(* the same round, which is its last message when the handler is the       *)
(* conversation's only one.                                                *)
(***************************************************************************)
Min(a, b) == IF a < b THEN a ELSE b

LastContents(messages, n, m) == [i \in 1..m |-> messages[n - m + i].content]

RECURSIVE SpaceSeparated(_)
SpaceSeparated(parts) ==
    IF Len(parts) = 0 THEN ""
    ELSE IF Len(parts) = 1 THEN parts[1]
    ELSE SpaceSeparated(SubSeq(parts, 1, Len(parts) - 1)) \o " " \o parts[Len(parts)]

C5_ContextWindow ==
    \A e \in calls :
        e.mem_rounds >= 1
        => LET messages == heap[e.conv].messages
               m == Min(e.mem_rounds, e.n)
           IN  /\ e.n <= Len(messages)
               /\ e.k = m
               /\ e.prompt = SpaceSeparated(LastContents(messages, e.n, m))
               /\ e.side = "b"
                  => \E a \in calls :
                        /\ a.obs = e.obs /\ a.conv = e.conv
                        /\ a.turn = e.turn /\ a.side = "a"
                        /\ \E i \in (a.n + 1)..e.n : messages[i].sender = "agent_a"
                        /\ Attached(e.conv) = {e.obs}
                           => e.n = a.n + 1

C5_Witness ==
    \E e \in calls :
        /\ e.mem_rounds = 2 /\ e.n = 5
        /\ e.prompt = heap[e.conv].messages[4].content \o " "
                      \o heap[e.conv].messages[5].content
        /\ heap[e.conv].messages[4].content # heap[e.conv].messages[5].content

(***************************************************************************)
(* C6: for every mem_rounds = w >= 0 the number of messages joined into    *)
(* the prompt of an adapter call is at most w.                             *)
(***************************************************************************)
C6_WindowIsUpperBound == \A e \in calls : e.mem_rounds >= 0 => e.k <= e.mem_rounds

(***************************************************************************)
(* C7: once a handler has seen its client gone (a stream write failed), it *)
(* starts no adapter call, and when it has ended its conversation is       *)
(* inactive and the transcript query of its identifier returns a history   *)
(* that begins with every message appended so far.                         *)
(***************************************************************************)
IsPrefix(p, q) == Len(p) <= Len(q) /\ SubSeq(q, 1, Len(p)) = p

C7_DisconnectHalts ==
    \A o \in Observers :
        obs[o].observed
        => /\ obs[o].pc \in {"send_error", "done"}
           /\ (obs[o].pc = "done" /\ obs[o].conv # 0)
              => /\ ~heap[obs[o].conv].active
                 /\ TranscriptFound(obs[o].conversation_id)
                 /\ IsPrefix(heap[obs[o].conv].messages,
                             get_conversation_transcript(obs[o].conversation_id))

\* A handler saw its client gone after replies were appended, and its
\* conversation is inactive with the replies in the transcript.
C7_Witness ==
    \E o \in Observers :
        /\ obs[o].observed
        /\ obs[o].pc = "done"
        /\ obs[o].conv # 0
        /\ ~heap[obs[o].conv].active
        /\ Len(heap[obs[o].conv].messages) >= 2
        /\ TranscriptFound(obs[o].conversation_id)
        /\ get_conversation_transcript(obs[o].conversation_id) = heap[obs[o].conv].messages

(***************************************************************************)
(* C8: after a create_conversation request that failed (400 or 500) the    *)
(* registry equals the registry before the request and has no entry that   *)
(* the request added.                                                      *)
(***************************************************************************)
C8_FailedCreateStoresNothing ==
    http.status \in {400, 500}
    => /\ conversations = http.before
       /\ http.conv_id \in DOMAIN conversations => http.conv_id \in DOMAIN http.before

(***************************************************************************)
(* C9: every conversation in the registry has both agents constructed or   *)
(* neither.                                                                *)
(***************************************************************************)
C9_AgentsAllOrNothing ==
    \A id \in DOMAIN conversations :
        LET c == heap[conversations[id]] IN
        (c.agent_a = NoAgent) <=> (c.agent_b = NoAgent)

\* Both cases are registered: a conversation with both agents, and one whose
\* side B was refused (its credential is missing) with neither.
C9_Witness ==
    /\ \E id \in DOMAIN conversations :
          LET c == heap[conversations[id]] IN
          /\ c.agent_a = NoAgent /\ c.agent_b = NoAgent
          /\ ensure_credentials(env, c.request.provider_a).exc = NOEXC
          /\ ensure_credentials(env, c.request.provider_b).exc = "RuntimeError"
    /\ \E id \in DOMAIN conversations :
          LET c == heap[conversations[id]] IN
          c.agent_a # NoAgent /\ c.agent_b # NoAgent

(***************************************************************************)
(* C10: create_conversation answers 400 when a side's provider is unknown, *)
(* lacks its credential or is misconfigured, 500 only for other faults,    *)
(* and 200 when there is no fault.                                         *)
(***************************************************************************)
SideProviders(request) ==
    {SideConfig(request.persona_a, request.provider_a, request.temperature_a).provider,
     SideConfig(request.persona_b, request.provider_b, request.temperature_b).provider}

UnknownProvider(request) == \E p \in SideProviders(request) : p \notin DOMAIN PROVIDERS

\* Judged on the environment the request leaves, which holds its own keys.
MissingCredential(request) ==
    \E p \in SideProviders(request) \cap DOMAIN PROVIDERS :
        /\ PROVIDERS[p].needs_key
        /\ Truthy(PROVIDERS[p].key_env)
        /\ Strip(getenv(env, PROVIDERS[p].key_env, "")) = ""

MisconfiguredProvider(request) ==
    \E p \in SideProviders(request) \cap DOMAIN PROVIDERS :
        PROVIDERS[p].needs_key /\ ~Truthy(PROVIDERS[p].key_env)

ClientFault(request) ==
    UnknownProvider(request) \/ MissingCredential(request) \/ MisconfiguredProvider(request)

C10_ClientErrorsAre400 ==
    http.status # 0
    => /\ ClientFault(http.request) => http.status = 400
       /\ ~ClientFault(http.request) => http.status = 200

(***************************************************************************)
(* C11: once a conversation's active flag is false it stays false, its     *)
(* history is never appended to again and no adapter call is started for   *)
(* it, whatever handler takes the step.                                    *)
(***************************************************************************)
CallsFor(log, ref) == {e \in log : e.conv = ref}

C11_InactiveIsTerminal ==
    [][\A ref \in Refs :
          ~heap[ref].active
          => /\ ~heap'[ref].active
             /\ heap'[ref].messages = heap[ref].messages
             /\ CallsFor(calls', ref) = CallsFor(calls, ref)]_vars

(***************************************************************************)
(* C12: no two handlers have a generate_response call of the same          *)
(* conversation outstanding at once, and at most one handler has ever      *)
(* appended to a conversation's history.                                   *)
(***************************************************************************)
InFlight(ref) == {o \in Observers : obs[o].conv = ref /\ obs[o].pc \in {"callA", "callB"}}

Writers(ref) == {o \in Observers : obs[o].conv = ref /\ obs[o].msg.sender # NONE}

C12_SingleWriter ==
    \A ref \in Refs :
        /\ Cardinality(InFlight(ref)) <= 1
        /\ Cardinality(Writers(ref)) <= 1

(***************************************************************************)
(* C13: an entry of the registry is never removed or pointed at another    *)
(* conversation, and creating a conversation leaves every conversation     *)
(* created before as it was.                                               *)
(***************************************************************************)
C13_RegistryInsertOnly ==
    [][/\ \A id \in DOMAIN conversations :
             id \in DOMAIN conversations' /\ conversations'[id] = conversations[id]
       /\ Len(heap') > Len(heap) => \A ref \in Refs : heap'[ref] = heap[ref]]_vars

(***************************************************************************)
(* C14: a step of a handler whose adapter call raised or whose client went *)
(* away changes no conversation other than the handler's own: every other  *)
(* conversation keeps its history, active flag and agents.                 *)
(***************************************************************************)
Failed(o) == obs[o].conv # 0 /\ (obs[o].err # NONE \/ ~obs[o].connected)

C14_FailureIsIsolated ==
    [][\A o \in Observers :
          (Failed(o) /\ obs'[o] # obs[o])
          => \A ref \in Refs \ {obs[o].conv} : heap'[ref] = heap[ref]]_vars

(***************************************************************************)
(* C15  Every event written to an observer's stream is a typed event of    *)
(* one of exactly three types, message, error or conversation_end; this    *)
(* includes what is written on an attach to an unknown or an inactive      *)
(* conversation.                                                           *)
(***************************************************************************)
EventTypes == {"message", "error", "conversation_end"}

C15_EventsAreTyped ==
    \A o \in Observers :
        \A i \in 1..Len(obs[o].sent) : obs[o].sent[i].type \in EventTypes

(***************************************************************************)
(* C16  On an attach to an active conversation, every message already in   *)
(* the history is written to the observer, in history order, before the    *)
(* first adapter call of that attachment starts and before any newly       *)
(* generated message is written: at the step that starts the handler's     *)
(* first call its stream is exactly the message events of the history,     *)
(* and every later write of the handler only appends to it.                *)
(***************************************************************************)
HistoryEvents(messages) ==
    [i \in 1..Len(messages) |-> Event("message", messages[i].sender, messages[i].content)]

C16_ReplayPrecedesCalls ==
    [][\A o \in Observers :
          /\ (obs[o].ncalls = 0 /\ obs'[o].ncalls = 1)
             => /\ obs'[o].conv # 0
                /\ obs'[o].sent = HistoryEvents(heap[obs'[o].conv].messages)
          /\ obs[o].ncalls >= 1 => IsPrefix(obs[o].sent, obs'[o].sent)]_vars

\* A handler has started its first call on a history that another handler
\* had extended before it attached, and has gone on to write its own reply.
C16_Witness ==
    \E e \in calls :
        /\ e.turn = 1 /\ e.side = "a" /\ e.n >= 3
        /\ obs[e.obs].pc = "sleepA"
        /\ Len(obs[e.obs].sent) = e.n + 1
        /\ SubSeq(obs[e.obs].sent, 1, e.n)
              = HistoryEvents(SubSeq(heap[e.conv].messages, 1, e.n))

(***************************************************************************)
(* C17  The round counter counts completed rounds: at every point of the   *)
(* turn loop the counter equals the number of A-then-B pairs the loop has  *)
(* completed, and the limit test (counter < max_rounds) is made only at    *)
(* the start of a full round, never between side A and side B.             *)
(***************************************************************************)
InLoop(o) == obs[o].pc \in {"callA", "sendA", "sleepA", "callB", "sendB", "sleepB"}

\* The handler left the loop by its while test.
LeftByTest(o) == obs[o].conv # 0 /\ obs[o].pc \in {"send_end", "done"} /\ obs[o].err = NONE

NeverCutShort(o) == LeftByTest(o) => obs[o].ncalls = 2 * obs[o].turn_counter

AgentKinds == {"OpenAICompatible", "Anthropic", "Gemini", "AutoGen"}

AgentOf(ref, sender) == IF sender = "agent_a" THEN heap[ref].agent_a ELSE heap[ref].agent_b

C18_AdaptersNeverReturnEmpty ==
    \A ref \in Refs :
        \A i \in 1..Len(heap[ref].messages) :
            LET m == heap[ref].messages[i] IN
            (m.sender # "user" /\ AgentOf(ref, m.sender).kind \in AgentKinds)
                => m.content # ""

(***************************************************************************)
(* C19  For every provider identifier in the registry, get_spec(id)        *)
(* returns exactly one spec, whose key equals id and which no other        *)
(* identifier of the registry yields; for every identifier not in the      *)
(* registry get_spec fails with KeyError (the unknown-provider error) and  *)
(* returns nothing, in particular no default spec.                         *)
(***************************************************************************)
RegisteredIds ==
    {"openai", "anthropic", "gemini", "deepseek", "openrouter", "ollama", "lmstudio", "autogen"}

C19_GetSpecRoundTrips ==
    probe.fn = "get_spec"
    => IF probe.provider \in RegisteredIds
       THEN /\ probe.exc = NOEXC
            /\ probe.val.key = probe.provider
            /\ \A id \in RegisteredIds : get_spec(id) = probe.val => id = probe.provider
       ELSE probe.exc = "KeyError" /\ probe.val = NONE

\* get_spec("autogen") has returned the spec keyed autogen.
C19_Witness ==
    /\ probe.fn = "get_spec" /\ probe.provider = "autogen"
    /\ probe.exc = NOEXC /\ probe.val.key = "autogen"

(***************************************************************************)
(* C20  resolve_model(id, requested) returns the requested model with the  *)
(* surrounding whitespace removed when it is non-empty after trimming,     *)
(* returns the provider's default model when requested is absent, empty or *)
(* all whitespace, and never fails for any (id, requested) pair.           *)
(***************************************************************************)
RECURSIVE Spaces(_)
Spaces(n) == IF n = 0 THEN "" ELSE " " \o Spaces(n - 1)

\* requested is absent, empty or all whitespace.
Blank(requested) == requested = NONE \/ requested = Spaces(Len(requested))

\* text is requested without its leading and trailing spaces.
Trimmed(requested, text) ==
    /\ text # "" /\ Head(text) # " " /\ SubSeq(text, Len(text), Len(text)) # " "
    /\ \E i, j \in 0..Len(requested) : requested = Spaces(i) \o text \o Spaces(j)

C20_ResolveModelNeverFails ==
    probe.fn = "resolve_model"
    => /\ probe.exc = NOEXC
       /\ IF Blank(probe.model)
          THEN probe.val = get_spec(probe.provider).default_model
          ELSE Trimmed(probe.model, probe.val)

\* C20 as the code has it: the default is looked up with get_spec, so with no
\* usable requested model resolve_model fails with KeyError for an identifier
\* that is not in the registry; it never fails for a registered identifier,
\* nor when the requested model is non-empty after trimming (the identifier
\* is not looked at then).
C20_ResolveModel ==
    probe.fn = "resolve_model"
    => IF ~Blank(probe.model)
       THEN probe.exc = NOEXC /\ Trimmed(probe.model, probe.val)
       ELSE IF probe.provider \in RegisteredIds
       THEN probe.exc = NOEXC /\ probe.val = get_spec(probe.provider).default_model
       ELSE probe.exc = "KeyError"

\* A padded model requested for an unknown identifier has been resolved.
C20_Witness ==
    /\ probe.fn = "resolve_model" /\ probe.provider = "nope" /\ probe.model = " a b "
    /\ probe.exc = NOEXC /\ probe.val = "a b"

(***************************************************************************)
(* C21  For every registered provider with needs_key = true,               *)
(* ensure_credentials fails with the missing-credential error when the     *)
(* configured value is unset, empty or only whitespace, and otherwise      *)
(* returns the trimmed value; for every registered provider with           *)
(* needs_key = false it never fails and returns no value, whatever the     *)
(* configuration state; it never modifies the configuration state.         *)
(***************************************************************************)
\* The value configured for the provider's credential variable, if any.
Configured(e, provider) ==
    IF get_spec(provider).key_env \in DOMAIN e THEN e[get_spec(provider).key_env] ELSE NONE

C21_EnsureCredentials ==
    [][(probe'.fn = "ensure_credentials" /\ probe'.provider \in RegisteredIds)
          => /\ env' = env
             /\ IF get_spec(probe'.provider).needs_key
                THEN IF Blank(Configured(env, probe'.provider))
                     THEN probe'.exc = "RuntimeError"
                     ELSE /\ probe'.exc = NOEXC
                          /\ Trimmed(Configured(env, probe'.provider), probe'.val)
                ELSE probe'.exc = NOEXC /\ probe'.val = NONE]_vars

\* The padded OPENAI_API_KEY has been returned, trimmed, for autogen.
C21_Witness ==
    /\ probe.fn = "ensure_credentials" /\ probe.provider = "autogen"
    /\ Configured(env, "autogen") = " sk-1 "
    /\ probe.exc = NOEXC /\ probe.val = "sk-1"

(***************************************************************************)
(* C22  create_agent fails with the unsupported-provider error (the        *)
(* ValueError "Unsupported provider") whenever the provider identifier is  *)
(* not one of the known variants, and for every identifier in the provider *)
(* registry it returns an agent, given its credential is present, rather   *)
(* than failing as unsupported.  An identifier is taken as a known variant *)
(* when it is one in lower case, as create_agent lowers it.                *)
(***************************************************************************)
KnownVariant(provider) == Lower(provider) \in RegisteredIds

CredentialPresent(e, provider) ==
    ~get_spec(provider).needs_key \/ ~Blank(Configured(e, provider))

C22_UnsupportedProvider ==
    probe.fn = "create_agent"
    => IF KnownVariant(probe.provider)
       THEN /\ probe.exc # "ValueError"
            /\ CredentialPresent(env, Lower(probe.provider))
                  => probe.exc = NOEXC /\ probe.val # NoAgent
       ELSE probe.exc = "ValueError"

(***************************************************************************)
(* C23  For every credentialed provider (openai, openrouter, deepseek,     *)
(* anthropic, gemini, autogen) create_agent checks the credential before   *)
(* it constructs the agent and propagates the missing-credential error     *)
(* unchanged, so no agent is ever returned with an empty credential; for   *)
(* the local providers (ollama, lmstudio) an agent is returned with no     *)
(* credential, whatever the configuration state.                           *)
(***************************************************************************)
CredentialedProviders == {"openai", "openrouter", "deepseek", "anthropic", "gemini", "autogen"}

LocalProviders == {"ollama", "lmstudio"}

C23_CredentialBeforeAgent ==
    probe.fn = "create_agent"
    => /\ Lower(probe.provider) \in CredentialedProviders
             => IF Blank(Configured(env, Lower(probe.provider)))
                THEN /\ probe.exc = "RuntimeError"
                     /\ probe.exc = ensure_credentials(env, Lower(probe.provider)).exc
                     /\ probe.val = NoAgent
                ELSE /\ probe.exc = NOEXC
                     /\ probe.val # NoAgent
                     /\ Trimmed(Configured(env, Lower(probe.provider)), probe.val.api_key)
       /\ Lower(probe.provider) \in LocalProviders
             => probe.exc = NOEXC /\ probe.val # NoAgent /\ probe.val.api_key = NONE

\* An Anthropic agent was asked for while ANTHROPIC_API_KEY was blank, and
\* the call raised without returning an agent.
C23_Witness ==
    /\ probe.fn = "create_agent" /\ probe.provider = "anthropic"
    /\ Configured(env, "anthropic") = "  "
    /\ probe.exc = "RuntimeError" /\ probe.val = NoAgent

(***************************************************************************)
(* C24  When a conversation request names model_a and model_b, the agents  *)
(* are constructed with exactly those models: the model passed to          *)
(* create_agent for side A equals request.model_a and for side B           *)
(* request.model_b, whenever they are non-empty.                           *)
(***************************************************************************)
\* The conversation the last create_conversation request constructed.
LastCreated == heap[Len(heap)]

C24_RequestModelsUsed ==
    http.status = 200
    => /\ Truthy(http.request.model_a) => LastCreated.agent_a.model = http.request.model_a
       /\ Truthy(http.request.model_b) => LastCreated.agent_b.model = http.request.model_b

(***************************************************************************)
(* C25  Per-request credential overrides are not isolated: after a         *)
(* conversation-creation request carrying a non-empty api_keys entry for a *)
(* provider, the process-wide configuration holds that key, trimmed, under *)
(* the provider's credential variable; it stays there after the request    *)
(* (a variable changes only when a request carries a key for it), so a     *)
(* later request that supplies no key for that provider resolves its       *)
(* credential to the key configured before it, the earlier request's.      *)
(***************************************************************************)
\* The entry is written to the environment: a non-blank key of a registered
\* provider that has a credential variable.
Injectable(entry) ==
    /\ ~Blank(entry.key)
    /\ entry.provider \in RegisteredIds
    /\ get_spec(entry.provider).key_env # NONE

\* The entries of api_keys that are written to the variable var.
InjectedInto(api_keys, var) ==
    {i \in 1..Len(api_keys) :
        Injectable(api_keys[i]) /\ get_spec(api_keys[i].provider).key_env = var}

\* Side A of the request asks, without a persona, for a credentialed
\* provider for whose variable the request carries no key.
SideAWithoutKey(request) ==
    /\ request.persona_a = NONE
    /\ Lower(request.provider_a) \in CredentialedProviders
    /\ InjectedInto(request.api_keys, get_spec(Lower(request.provider_a)).key_env) = {}

C25_KeysAreNotIsolated ==
    [][/\ \A i \in 1..Len(http'.request.api_keys) :
             LET entry == http'.request.api_keys[i]
                 var == get_spec(entry.provider).key_env
             IN  (Injectable(entry)
                  /\ \A j \in InjectedInto(http'.request.api_keys, var) : j <= i)
                 => var \in DOMAIN env' /\ Trimmed(entry.key, env'[var])
       /\ \A var \in DOMAIN env :
             /\ var \in DOMAIN env'
             /\ env'[var] # env[var] => InjectedInto(http'.request.api_keys, var) # {}
       /\ (Len(heap') > Len(heap) /\ http'.status = 200 /\ SideAWithoutKey(http'.request))
             => LET var == get_spec(Lower(http'.request.provider_a)).key_env
                IN  /\ var \in DOMAIN env
                    /\ Trimmed(env[var], heap'[Len(heap')].agent_a.api_key)]_vars

\* OPENAI_API_KEY holds the key an earlier request carried, and a request
\* without any key has been given an OpenAI agent that uses it.
C25_Witness ==
    /\ http.status = 200 /\ http.request.api_keys = <<>>
    /\ http.request.provider_a = "openai"
    /\ "OPENAI_API_KEY" \in DOMAIN env /\ env["OPENAI_API_KEY"] = "sk-1"
    /\ LastCreated.agent_a.api_key = "sk-1"

(***************************************************************************)
(* C26  From a successful create_conversation until an observer attaches,  *)
(* the conversation is active, both agents are constructed, and its        *)
(* history holds exactly one message, the starter message with sender      *)
(* "user" (the transcript's message_count is 1); no adapter call is made   *)
(* for it before an observer attaches.                                     *)
(***************************************************************************)
C26_CreatedUntilAttached ==
    \A ref \in Refs :
        (Created(ref) /\ Attached(ref) = {})
        => /\ heap[ref].active
           /\ heap[ref].messages = <<Message(heap[ref].request.starter_message, "user", NONE)>>
           /\ CallsFor(calls, ref) = {}

(***************************************************************************)
(* C29  Temperature is passed through uninterpreted: the temperature an    *)
(* agent is constructed with equals the temperature configured for its     *)
(* side, the persona's when a persona with a temperature is selected and   *)
(* the request's otherwise, for every value including 0, with no clamping  *)
(* or substitution.  Temperatures are in tenths, so every persona of the   *)
(* library has one.                                                        *)
(***************************************************************************)
PersonaSelected(persona_id) == Truthy(persona_id) /\ persona_id \in DOMAIN persona_library

ConfiguredTemperature(persona_id, req_temperature) ==
    IF PersonaSelected(persona_id) THEN persona_library[persona_id].temperature
    ELSE req_temperature

C29_TemperaturePassedThrough ==
    http.status = 200
    => /\ LastCreated.agent_a.temperature
             = ConfiguredTemperature(http.request.persona_a, http.request.temperature_a)
       /\ LastCreated.agent_b.temperature
             = ConfiguredTemperature(http.request.persona_b, http.request.temperature_b)

(***************************************************************************)
(* C30  A conversation's history is append-only: in every step of every    *)
(* operation the new history has the old history as a prefix; existing     *)
(* messages are never modified, reordered or removed, and the starter      *)
(* message stays at position 0.                                            *)
(***************************************************************************)
C30_HistoryAppendOnly ==
    [][\A ref \in Refs :
          /\ ref <= Len(heap')
          /\ IsPrefix(heap[ref].messages, heap'[ref].messages)
          /\ Created(ref)
                => heap'[ref].messages[1]
                      = Message(heap[ref].request.starter_message, "user", NONE)]_vars

\* Two handlers have appended to the same history.
C30_Witness ==
    \E ref \in Refs :
        /\ Len(heap[ref].messages) >= 4
        /\ heap[ref].messages[1].sender = "user"
        /\ Cardinality({e.obs : e \in CallsFor(calls, ref)}) = 2

(***************************************************************************)
(* C28  Agent instances share no mutable state: the credential used for an *)
(* agent's outbound call is always the credential the agent was            *)
(* constructed with, in every interleaving of concurrent generate_response *)
(* calls of different agents, including two Gemini agents constructed with *)
(* different keys whose calls run in worker threads at the same time.      *)
(***************************************************************************)
C28_OwnCredentialUsed == \A u \in genai.used : u.sent_key = u.agent_key

Bound(o) == obs[o].conv # 0 /\ obs[o].pc # "idle"

HandlerEnds == \A o \in Observers : Bound(o) ~> (obs[o].pc = "done")

ExitDeactivates == \A o \in Observers : (Bound(o) /\ obs[o].pc = "done") => ~heap[obs[o].conv].active

NeverReactivated == \A ref \in DOMAIN heap : ~heap[ref].active => ~heap'[ref].active

C31_AttachedTerminates ==
    /\ HandlerEnds
    /\ []ExitDeactivates
    /\ [][NeverReactivated]_vars

(***************************************************************************)
(* C32  An in-flight turn is not cancelled by a disconnect but nothing     *)
(* follows it: once the observer of a handler is gone while the handler    *)
(* awaits an adapter call, the only message still appended to the          *)
(* conversation's history is the reply of that call, and no new adapter    *)
(* call is started for the conversation.  A handler that lost its observer *)
(* during a call is afterwards at the call, at the write of its reply, at  *)
(* the error write or at its end.                                          *)
(***************************************************************************)
GoneInFlight(o) ==
    /\ obs[o].conv # 0
    /\ ~obs[o].connected
    /\ obs[o].pc \in {"callA", "callB", "sendA", "sendB", "send_error", "done"}

C32_NothingFollowsInFlightTurn ==
    [][\A o \in Observers :
          GoneInFlight(o)
          => /\ CallsFor(calls', obs[o].conv) = CallsFor(calls, obs[o].conv)
             /\ heap'[obs[o].conv].messages # heap[obs[o].conv].messages
                => /\ obs[o].pc \in {"callA", "callB"}
                   /\ obs'[o].pc \in {"sendA", "sendB"}
                   /\ heap'[obs[o].conv].messages
                        = Append(heap[obs[o].conv].messages, obs'[o].msg)]_vars

(***************************************************************************)
(* C33  For a single connected observer, the sequence of 'message' events  *)
(* received is, at every moment, a prefix of the conversation's history in *)
(* history order: each agent message is appended to the history before it  *)
(* is emitted, no message is emitted twice or out of order, and at most    *)
(* the most recently appended message is not yet emitted.                  *)
(***************************************************************************)
IsMessageEvent(e) == e.type = "message"

MessagesReceived(o) == SelectSeq(obs[o].sent, IsMessageEvent)

SoleObserver(o) == \A p \in Observers : obs[p].conv = obs[o].conv => p = o

C33_ReceivedIsPrefixOfHistory ==
    \A o \in Observers :
        (obs[o].conv # 0 /\ SoleObserver(o))
        => /\ IsPrefix(MessagesReceived(o), HistoryEvents(heap[obs[o].conv].messages))
           /\ Len(heap[obs[o].conv].messages) - Len(MessagesReceived(o)) <= 1

\* A connected observer has received the starter message and two replies,
\* and a third reply is appended and not yet written.
C33_Witness ==
    \E o \in Observers :
        /\ obs[o].conv # 0 /\ SoleObserver(o) /\ obs[o].connected
        /\ obs[o].pc = "sendA"
        /\ Len(MessagesReceived(o)) = 3
        /\ Len(heap[obs[o].conv].messages) = 4
        /\ MessagesReceived(o)[2].content # MessagesReceived(o)[3].content

(***************************************************************************)
(* C34  On every attachment that reaches the turn loop without a           *)
(* disconnect, conversation_end is emitted exactly once and is the last    *)
(* event: all message events precede it, an error event, if any, is        *)
(* emitted at most once and directly before it, and no message event       *)
(* follows an error event; when the observer disconnects, no               *)
(* conversation_end is emitted.                                            *)
(***************************************************************************)
Positions(o, type) == {i \in 1..Len(obs[o].sent) : obs[o].sent[i].type = type}

C34_EndIsLastEvent ==
    \A o \in Observers :
        obs[o].conv # 0
        => /\ Cardinality(Positions(o, "conversation_end")) <= 1
           /\ \A i \in Positions(o, "conversation_end") : i = Len(obs[o].sent)
           /\ Cardinality(Positions(o, "error")) <= 1
           /\ \A i \in Positions(o, "error") :
                 /\ \A j \in Positions(o, "message") : j < i
                 /\ i < Len(obs[o].sent) => i + 1 \in Positions(o, "conversation_end")
           /\ (obs[o].pc = "done" /\ obs[o].connected)
              => Positions(o, "conversation_end") # {}
           /\ ~obs[o].connected => Positions(o, "conversation_end") = {}

\* A handler whose observer stayed has ended after a reply, an error event
\* and conversation_end, and another handler lost its observer and ended
\* without conversation_end.
C34_Witness ==
    \E o, p \in Observers :
        /\ obs[o].conv # 0 /\ obs[o].pc = "done" /\ obs[o].connected
        /\ Cardinality(Positions(o, "message")) >= 2
        /\ Positions(o, "error") = {Len(obs[o].sent) - 1}
        /\ Positions(o, "conversation_end") = {Len(obs[o].sent)}
        /\ obs[p].conv # 0 /\ obs[p].pc = "done" /\ ~obs[p].connected
        /\ Positions(p, "message") # {}

(***************************************************************************)
(* C35  Whenever a creation request supplies a non-empty api_keys entry    *)
(* for the credentialed provider of one of its sides, the agent built for  *)
(* that side holds exactly the key supplied by that same request for that  *)
(* provider (with surrounding whitespace removed), for every interleaving  *)
(* of creation and provider-status requests and for every combination of   *)
(* providers in api_keys, including providers that share a credential      *)
(* variable, such as openai and autogen.                                   *)
(***************************************************************************)
Credentialed(provider) == get_spec_exc(provider) = NOEXC /\ get_spec(provider).needs_key

SuppliedKeys(request, provider) ==
    {Strip(request.api_keys[i].key) : i \in {j \in 1..Len(request.api_keys) :
        /\ request.api_keys[j].provider = provider
        /\ Truthy(request.api_keys[j].key)
        /\ Truthy(Strip(request.api_keys[j].key))}}

SideHoldsOwnKey(request, persona_id, req_provider, req_temperature, agent) ==
    LET provider == SideConfig(persona_id, req_provider, req_temperature).provider IN
    Credentialed(provider) => \A key \in SuppliedKeys(request, provider) : agent.api_key = key

C35_AgentHoldsRequestKey ==
    (http.status = 200 /\ Len(heap) > 0)
    => /\ SideHoldsOwnKey(http.request, http.request.persona_a, http.request.provider_a,
                          http.request.temperature_a, LastCreated.agent_a)
       /\ SideHoldsOwnKey(http.request, http.request.persona_b, http.request.provider_b,
                          http.request.temperature_b, LastCreated.agent_b)

(***************************************************************************)
(* C36  The provider-status check injects the keys of its request body     *)
(* only temporarily: after get_provider_status returns, the process-wide   *)
(* credential configuration is the same as before the call, so the keys it *)
(* was given do not affect later credential checks or conversation         *)
(* creations.                                                              *)
(***************************************************************************)
C36_StatusKeysAreTemporary ==
    [][(\E body \in StatusBodies : get_provider_status(body)) => env' = env]_vars

(***************************************************************************)
(* C37  Attaching an observer to an unknown conversation identifier or to  *)
(* an inactive conversation starts no turn and changes nothing: no adapter *)
(* call is made, no message is replayed, and the registry and every        *)
(* conversation's history and active flag are the same before and after    *)
(* the attach.  Stated of every step of a refused handler, from its accept *)
(* to its end.                                                             *)
(***************************************************************************)
Refused(o) == obs[o].pc \in {"send_notfound", "send_inactive"}

C37_RefusedAttachChangesNothing ==
    [][\A o \in Observers :
          ((obs[o].pc = "idle" /\ Refused(o)') \/ (Refused(o) /\ obs'[o].pc = "done"))
          => /\ calls' = calls
             /\ conversations' = conversations
             /\ heap' = heap
             /\ obs'[o].conv = 0
             /\ Positions(o, "message")' = {}]_vars

(***************************************************************************)
(* C38  The two orchestrator implementations differ in their round-limit   *)
(* check for the same maxRounds = N >= 1 with no failures: the primary one *)
(* (backend/main.py) counts A-then-B pairs and ends with 2N agent          *)
(* messages, while the legacy one (web_gui/backend/main.py) tests history  *)
(* length < 2N before every single turn, counting the starter message, and *)
(* so ends mid-pair after a side-A turn with 2N - 1 agent messages.        *)
(***************************************************************************)
IsAgentMessage(m) == m.sender \in {"agent_a", "agent_b"}

AgentMessages(ref) == SelectSeq(heap[ref].messages, IsAgentMessage)

EndedWithoutFailure(o) ==
    /\ obs[o].conv # 0 /\ obs[o].pc = "done" /\ obs[o].connected
    /\ Positions(o, "error") = {}
    /\ Positions(o, "conversation_end") # {}

C38_RoundLimitsDiffer ==
    /\ EndedWithoutFailure(1)
       => Len(AgentMessages(obs[1].conv)) = 2 * heap[obs[1].conv].request.max_rounds
    /\ EndedWithoutFailure(2)
       => /\ Len(AgentMessages(obs[2].conv)) = 2 * heap[obs[2].conv].request.max_rounds - 1
          /\ heap[obs[2].conv].messages[Len(heap[obs[2].conv].messages)].sender = "agent_a"

\* Both orchestrators have run the same request to the end without a
\* failure.
C38_Witness ==
    /\ EndedWithoutFailure(1) /\ EndedWithoutFailure(2)
    /\ obs[1].conv = 1 /\ obs[2].conv = 2
    /\ heap[1].request = heap[2].request
    /\ Len(AgentMessages(1)) = Len(AgentMessages(2)) + 1

(***************************************************************************)
(* C39  Persona persistence round-trips: a persona saved with              *)
(* upsert_persona and then reloaded from roles.json by                     *)
(* load_personas_from_config equals the saved persona in every field       *)
(* (name, provider, system prompt, temperature, model, guidelines, notes). *)
(***************************************************************************)
C39_PersonaRoundTrips ==
    roles.fresh
    => \A key \in DOMAIN roles.saved :
          /\ key \in DOMAIN roles.persona_library
          /\ roles.persona_library[key] = roles.saved[key]

\* The same, leaving out the two fields that the file does not keep as
\* saved: the temperature and an empty notes string.
C39_RoundTripsButTemperature ==
    roles.fresh
    => \A key \in DOMAIN roles.saved :
          /\ key \in DOMAIN roles.persona_library
          /\ [roles.persona_library[key] EXCEPT !.temperature = 0, !.notes = OrEmpty(@)]
               = [roles.saved[key] EXCEPT !.temperature = 0, !.notes = OrEmpty(@)]

====
